---- MODULE Spec2Model ----
(***************************************************************************)
(* Edit sessions: resuming a stored edit session into the local workspace  *)
(* (EditSessionsContribution.resumeEditSession, generateChanges and        *)
(* willChangeLocalContents of editSessions.contribution.ts), and storing   *)
(* the changed resources of the workspace as an edit session               *)
(* (storeEditSession).                                                     *)
(*                                                                         *)
(* A workspace folder is identified by its index in the workspace (its     *)
(* uri); a file uri is <<folder index, relative path>>.                    *)
(***************************************************************************)
EXTENDS Integers, Sequences, FiniteSets, TLC

\* ---------------------------------------------------------------- bounds
MaxLocalFolders == 2
MaxRemoteFolders == 2
MaxChanges == 1

\* ------------------------------------------------------------- constants
EditSessionSchemaVersion == 2

Undefined == "undefined"
NoFile == "nofile"
\* what the file service holds at a uri that is a directory
Directory == "directory"
\* the storage service holds no edit session
NoSession == [version |-> 0, folders |-> <<>>]

Names == {"A", "B"}
RemoteNames == {"A"}
Paths == {"a"}
Bytes == {"x", "y"}
IncomingBytes == {"x"}
Identities == {"i1", "i2"}
CanonicalIdentities == {"i1"}
Refs == {"r1", "r2"}
StoredRef == "r1"
Matches == {"Complete", "Partial", "None"}

SeqsFromTo(S, lo, hi) == UNION {[1..k -> S] : k \in lo..hi}

\* ------------------------------------------------------ pure conversions
\* encodeBase64 of a one-byte buffer
encodeBase64(b) == CASE b = "x" -> "eA=="
                     [] b = "y" -> "eQ=="
                     [] OTHER -> ""

decodeBase64(s) == CASE s = "eA==" -> "x"
                     [] s = "eQ==" -> "y"
                     [] OTHER -> ""

decodeEditSessionFileContent(version, contents) == decodeBase64(contents)

\* sha1Hex is collision free on the strings of the model
sha1Hex(s) == <<"sha1", s>>

\* URI.toString()
toString(uri) == <<"file://", uri[1], uri[2]>>

\* joinPath(folderRoot.uri, change.relativeFilePath)
joinPath(folderRootUri, relativeFilePath) == <<folderRootUri, relativeFilePath>>

\* ------------------------------------------------------------ data model
AdditionChange(p, b) ==
    [type |-> "Addition", fileType |-> "File", relativeFilePath |-> p, contents |-> encodeBase64(b)]

\* a deletion that carries (empty) contents
DeletionChangeWithContents(p) ==
    [type |-> "Deletion", fileType |-> "File", relativeFilePath |-> p, contents |-> ""]

DeletionChange(p) ==
    [type |-> "Deletion", fileType |-> "File", relativeFilePath |-> p, contents |-> Undefined]

ChangeSet == {AdditionChange(p, b) : p \in Paths, b \in IncomingBytes}
             \cup {DeletionChange(p) : p \in Paths}

FolderSet == [name : RemoteNames,
              canonicalIdentity : CanonicalIdentities \cup {Undefined},
              workingChanges : SeqsFromTo(ChangeSet, 0, MaxChanges)]

\* edit sessions of the supported version, and edit sessions of a newer version
EditSessions ==
    [version : {EditSessionSchemaVersion}, folders : SeqsFromTo(FolderSet, 1, MaxRemoteFolders)]
    \cup [version : {EditSessionSchemaVersion + 1}, folders : SeqsFromTo(FolderSet, 1, 1)]

\* a change whose type is not one of ChangeType
UnknownChange(p) ==
    [type |-> "Unknown", fileType |-> "File", relativeFilePath |-> p, contents |-> Undefined]

HasUnknownChange(session) ==
    \E f \in 1..Len(session.folders) :
        \E c \in 1..Len(session.folders[f].workingChanges) :
            session.folders[f].workingChanges[c].type \notin {"Addition", "Deletion"}

\* edit sessions of the supported version that hold a change of an unknown type
MalformedEditSessions ==
    {session \in [version : {EditSessionSchemaVersion},
                  folders : SeqsFromTo(
                      [name : RemoteNames,
                       canonicalIdentity : CanonicalIdentities \cup {Undefined},
                       workingChanges : SeqsFromTo(ChangeSet \cup {UnknownChange(p) : p \in Paths},
                                                   0, MaxChanges)],
                      1, MaxRemoteFolders)] :
        HasUnknownChange(session)}

\* storeEditSession was not called
NoStoreCall == [called |-> FALSE, writes |-> 0, data |-> NoSession, writeResult |-> Undefined,
                result |-> Undefined, identifier |-> <<>>]

\* no call of resumeEditSession found the store empty
NoCall == [ref |-> Undefined, silent |-> FALSE, absent |-> FALSE]

FolderUris(n) == {joinPath(i, p) : i \in 1..n, p \in Paths}

VARIABLES
    workspaceFolders,   \* contextService.getWorkspace().folders: sequence of folder names
    files,              \* the file service: uri -> bytes or NoFile
    repositories,       \* scmService.repositories: [rootUri, groups]
    stored,             \* the edit session held by the storage service under StoredRef
    partialMatchesEnabled, \* workbench.experimental.editSessions.partialMatches.enabled
    pc,                 \* position of resumeEditSession
    ref,                \* ref of the session being resumed (data.ref)
    force,              \* the force argument
    editSession,        \* data.editSession
    changes,            \* generateChanges: changes
    conflictingChanges, \* generateChanges: conflictingChanges
    fi,                 \* index of the edit session folder being handled
    wi,                 \* index of the workspace folder being matched
    folderRoot,         \* matched workspace folder (0: undefined)
    localChanges,       \* generateChanges: localChanges
    ci,                 \* index of the working change being handled
    ai,                 \* index of the change being applied
    outcome,            \* how resumeEditSession ended
    notifications,      \* notificationService.info / warn / error calls
    prompts,            \* notificationService.prompt calls: <<edit session folder, workspace folder>>
    scan,               \* identities and match results seen for the current edit session folder
    userChoice,         \* answer to the overwrite dialog
    reads,              \* number of storage service read calls
    deleteCalls,        \* number of storage service delete calls
    absentFor,          \* the ref and silent arguments of a call whose read returned nothing
    matched,            \* number of edit session folders that got a folderRoot
    files0,             \* the files when resumeEditSession was called
    stored0,            \* the stored edit session when resumeEditSession was called
    storeCall,          \* what storeEditSession did: its write call and its result
    environment,        \* editSessionId, continueOn, the autoResume setting, isSignedIn and
                        \* the stored applicationLaunchedViaContinueOn flag
    autoPc,             \* position of autoResumeEditSession
    resumes,            \* the calls of resumeEditSession, in call order: who called, the
                        \* arguments, and whether the call is still running
    signInListener,     \* the onDidSignIn listener of handlePendingEditSessions is registered
    signIns,            \* how many times editSessionsStorageService.onDidSignIn fired
    continueCall,       \* ContinueEditSessionAction.run: its position and local variables
    profiles,           \* userDataProfilesService.profiles: the extensionsResource of each
    profileExtensions,  \* the extensions each profile location lists on disk
    installed,          \* the user extensions that are installed
    uninstalled,        \* the extensions marked as uninstalled so far
    markAsUninstalledCall, \* the latest call of markAsUninstalled: its extensions, its
                        \* caller, and a bit that every call flips
    allExtensions,      \* ExtensionsWatcher.allExtensions: key -> set of profile locations
    listenersRegistered, \* registerListeners has run
    pending,            \* the asynchronous work of the watcher that has not completed
    removedProfiles,    \* the profile locations removed so far
    profileOperation,   \* the operation of the extensions profile scanner service that was
                        \* announced and has not completed
    onDidChangeExtensionsByAnotherSource, \* the latest event fired, and a bit every fire flips
    events,             \* number of events the services have sent to the watcher
    lastOperation,      \* the latest completion of an operation of the scanner service,
                        \* when it carried an error: allExtensions before and after
    lastScan            \* the latest scan onDidExtensionsProfileChange went through: the
                        \* location, the scanned extensions, and the keys cached for it

\* what one call of resumeEditSession or storeEditSession reads and writes
editSessionVars ==
    <<workspaceFolders, files, repositories, stored, partialMatchesEnabled, pc, ref, force,
      editSession, changes, conflictingChanges, fi, wi, folderRoot, localChanges, ci, ai,
      outcome, notifications, prompts, scan, userChoice, reads, deleteCalls, absentFor,
      matched, files0, stored0, storeCall>>

\* what decides who calls resumeEditSession and storeEditSession, and when
triggerVars == <<environment, autoPc, resumes, signInListener, signIns, continueCall>>

\* the state of the ExtensionsWatcher and of the services it listens to
watcherVars == <<profiles, profileExtensions, installed, uninstalled, markAsUninstalledCall,
                 allExtensions, listenersRegistered, pending, removedProfiles, profileOperation,
                 onDidChangeExtensionsByAnotherSource, events, lastScan,
                 lastOperation>>

vars == <<editSessionVars, triggerVars, watcherVars>>

\* what resumeEditSession does not change
envVars == <<workspaceFolders, repositories, partialMatchesEnabled, files0, stored0, storeCall,
             triggerVars, watcherVars>>

\* the arguments and local variables of resumeEditSession and generateChanges
locals == <<ref, force, editSession, changes, conflictingChanges, fi, wi, folderRoot,
            localChanges, ci, ai>>

\* the local variables of generateChanges
matchLocals == <<fi, wi, folderRoot, localChanges, ci>>

\* the services' records of what resumeEditSession did
effects == <<files, stored, notifications, prompts, userChoice, reads, deleteCalls, absentFor>>

\* the environment of a window opened without an edit session to continue
NoEnvironment == [editSessionId |-> Undefined, continueOn |-> Undefined, autoResume |-> "off",
                  isSignedIn |-> FALSE, applicationLaunchedViaContinueOn |-> FALSE]

\* a URI as ContinueEditSessionAction handles it: its path and its query, a sequence
\* of name=value parameters; resolveDestination may also answer 'noDestinationUri'
\* or undefined
NoUri == [path |-> Undefined, query |-> <<>>]
NoDestinationUri == [path |-> "noDestinationUri", query |-> <<>>]

\* ContinueEditSessionAction.run has not been called
NoContinue == [pc |-> "idle", workspaceUri |-> NoUri, destination |-> Undefined,
               useEditSessionsWithContinueOn |-> "prompt", shouldStoreEditSession |-> FALSE,
               ref |-> Undefined, uri |-> NoUri, opened |-> NoUri, warned |-> FALSE]

\* autoResumeEditSession is over and nothing else calls resumeEditSession
NoTriggers ==
    /\ environment = NoEnvironment
    /\ autoPc = "done"
    /\ resumes = <<>>
    /\ signInListener = FALSE
    /\ signIns = 0
    /\ continueCall = NoContinue

\* no event of the ExtensionsWatcher fired, no markAsUninstalled call was made
NoEvent == [fired |-> 0, added |-> {}, removed |-> {}, profileLocation |-> Undefined]
NoMarkCall == [called |-> 0, extensions |-> {}, by |-> Undefined]

\* onDidExtensionsProfileChange has not gone through any scan
NoScan == [location |-> Undefined, extensions |-> {}, cached |-> {}]

\* the scanner service has no operation under way
NoOperation == [kind |-> "none", event |-> [extensions |-> {}, profileLocation |-> Undefined],
                handled |-> FALSE, before |-> <<>>, announced |-> <<>>]

\* the latest operation of the scanner service completed without error or was not
\* handled from its announcement on, or none has completed
NoCompletion == [kind |-> "none", event |-> [extensions |-> {}, profileLocation |-> Undefined],
                 error |-> FALSE, handled |-> FALSE, before |-> <<>>, after |-> <<>>]

\* what is kept of an operation that completes: when it completes with an error
\* and the watcher handled both of its events with allExtensions untouched in
\* between, its event and allExtensions before it was announced and after it completed
failedOperation(operation, error, registered, all, allAfter) ==
    LET handled == operation.handled /\ registered /\ all = operation.announced
    IN IF ~error \/ ~handled THEN NoCompletion
       ELSE [kind |-> operation.kind, event |-> operation.event, error |-> TRUE,
             handled |-> TRUE, before |-> operation.before, after |-> allAfter]

\* no ExtensionsWatcher is running
NoWatcher ==
    /\ profiles = {}
    /\ profileExtensions = <<>>
    /\ installed = {}
    /\ uninstalled = {}
    /\ markAsUninstalledCall = NoMarkCall
    /\ allExtensions = <<>>
    /\ listenersRegistered = FALSE
    /\ pending = {}
    /\ removedProfiles = {}
    /\ profileOperation = NoOperation
    /\ onDidChangeExtensionsByAnotherSource = NoEvent
    /\ events = 0
    /\ lastScan = NoScan
    /\ lastOperation = NoCompletion

\* the state when resumeEditSession is called, with the stored edit session one of sessions
InitFrom(sessions) ==
    /\ \E n \in 0..MaxLocalFolders :
         /\ workspaceFolders \in [1..n -> Names]
         /\ files \in [FolderUris(n) -> Bytes \cup {NoFile}]
         /\ \E ch \in [1..n -> SUBSET Paths] :
              repositories = [i \in 1..n |->
                  [rootUri |-> i, groups |-> <<{joinPath(i, p) : p \in ch[i]}>>]]
    /\ stored \in sessions
    /\ partialMatchesEnabled \in BOOLEAN
    /\ pc = "idle"
    /\ ref = Undefined
    /\ force = FALSE
    /\ editSession = NoSession
    /\ changes = <<>>
    /\ conflictingChanges = <<>>
    /\ fi = 0
    /\ wi = 0
    /\ folderRoot = 0
    /\ localChanges = {}
    /\ ci = 0
    /\ ai = 0
    /\ outcome = "None"
    /\ notifications = {}
    /\ prompts = {}
    /\ scan = <<>>
    /\ userChoice = "none"
    /\ reads = 0
    /\ deleteCalls = 0
    /\ absentFor = NoCall
    /\ matched = 0
    /\ files0 = files
    /\ stored0 = stored
    /\ storeCall = NoStoreCall
    /\ NoTriggers
    /\ NoWatcher

Init == InitFrom(EditSessions \cup {NoSession})

\* ------------------------------------------------- resumeEditSession, fetch
\* the empty workbench check is missing
isEmptyWorkbenchNever(folders) == FALSE

\* contextService.getWorkbenchState() === WorkbenchState.EMPTY
isEmptyWorkbench(folders) == Len(folders) = 0

\* editSessionsStorageService.read(ref): the session of that ref, or the latest one
storageRead(st, r) ==
    IF st # NoSession /\ (r = Undefined \/ r = StoredRef) THEN st ELSE NoSession

\* every empty read is reported with the same information
noSessionNotificationsAlwaysInfo(r, silent) ==
    {[severity |-> "info", message |-> "no edit session"]}

\* the notification shown when read returns nothing
noSessionNotifications(r, silent) ==
    IF r = Undefined /\ ~silent
    THEN {[severity |-> "info", message |-> "no edit session"]}
    ELSE IF r # Undefined
         THEN {[severity |-> "warn", message |-> "no edit session content for ref"]}
         ELSE {}

\* the version check is off by one
versionTooNewOffByOne(version) == version > EditSessionSchemaVersion + 1

\* editSession.version > EditSessionSchemaVersion
versionTooNew(version) == version > EditSessionSchemaVersion

\* resumeEditSession returns: its arguments and local variables are gone
Return(o) ==
    /\ pc' = "done"
    /\ outcome' = o
    /\ ref' = Undefined
    /\ force' = FALSE
    /\ editSession' = NoSession
    /\ changes' = <<>>
    /\ conflictingChanges' = <<>>
    /\ fi' = 0
    /\ wi' = 0
    /\ folderRoot' = 0
    /\ localChanges' = {}
    /\ ci' = 0
    /\ ai' = 0

\* resumeEditSession up to the call of generateChanges
ResumeEditSession(r, silent, frc, signedIn) ==
    /\ pc = "idle"
    /\ IF isEmptyWorkbench(workspaceFolders)
       THEN /\ Return("EmptyWorkspace")
            /\ UNCHANGED <<reads, notifications, absentFor>>
       ELSE IF silent /\ ~signedIn
       THEN /\ Return("NotSignedIn")
            /\ UNCHANGED <<reads, notifications, absentFor>>
       ELSE LET data == storageRead(stored, r) IN
            /\ reads' = reads + 1
            /\ IF data = NoSession
               THEN /\ Return("NotFound")
                    /\ notifications' = notifications \cup noSessionNotifications(r, silent)
                    /\ absentFor' = [ref |-> r, silent |-> silent, absent |-> TRUE]
               ELSE IF versionTooNew(data.version)
               THEN /\ Return("VersionRejected")
                    /\ notifications' = notifications \cup
                           {[severity |-> "error", message |-> "client too old"]}
                    /\ UNCHANGED absentFor
               ELSE /\ pc' = "match"
                    /\ editSession' = data
                    /\ ref' = StoredRef
                    /\ force' = frc
                    /\ fi' = 1
                    /\ wi' = 1
                    /\ UNCHANGED <<outcome, notifications, changes, conflictingChanges,
                                   folderRoot, localChanges, ci, ai, absentFor>>
    /\ UNCHANGED <<envVars, files, stored, prompts, userChoice, deleteCalls, scan, matched>>

\* ------------------------------------------------------- generateChanges
\* the first workspace folder is taken, whatever its name
findFirstFolder(folders, name) == IF Len(folders) > 0 THEN 1 ELSE 0

\* workspaceFolders.find((f) => f.name === folder.name): first index, 0 when none
findFolderByName(folders, name) ==
    IF \E i \in 1..Len(folders) : folders[i] = name
    THEN CHOOSE i \in 1..Len(folders) :
            /\ folders[i] = name
            /\ \A j \in 1..(i - 1) : folders[j] # name
    ELSE 0

\* every workspace folder that has an identity is taken
identityResolvesAnyIdentity(identity, canonicalIdentity, match, enabled, frc) ==
    identity # Undefined

\* an equal identity is not enough, the provider has to call the match complete
identityResolvesOnlyComplete(identity, canonicalIdentity, match, enabled, frc) ==
    /\ identity # Undefined
    /\ match = "Complete"

\* the workspace folder f becomes folderRoot
identityResolves(identity, canonicalIdentity, match, enabled, frc) ==
    \/ identity = canonicalIdentity
    \/ /\ identity # Undefined
       /\ \/ match = "Complete"
          \/ match = "Partial" /\ enabled /\ frc

\* a partial match is surfaced whatever the configuration says
surfacesPartialMatchWithoutFlag(identity, canonicalIdentity, match, enabled, frc) ==
    /\ identity # canonicalIdentity
    /\ identity # Undefined
    /\ match = "Partial"
    /\ ~frc

\* the partial match of workspace folder f is surfaced with notificationService.prompt
surfacesPartialMatch(identity, canonicalIdentity, match, enabled, frc) ==
    /\ identity # canonicalIdentity
    /\ identity # Undefined
    /\ match = "Partial"
    /\ enabled
    /\ ~frc

\* contextService.getWorkspaceFolder(uri) for the uri of a file, as an index; 0 stands
\* for a uri that no workspace folder holds
getWorkspaceFolder(uri) == uri[1]

\* contextService.getWorkspaceFolder(rootUri) for the rootUri of a repository, which is
\* the index of its folder; 0 stands for an undefined rootUri and for one outside
\* the workspace
getWorkspaceFolderOfRoot(rootUri) == rootUri

\* getChangedResources(repository): the reduce over the resource groups into a
\* Set<URI>, which holds a URI object once and two URI objects of one location twice
getChangedResources(repository) ==
    UNION {repository.groups[g] : g \in 1..Len(repository.groups)}

\* the localChanges set built for an edit session folder
collectLocalChanges(repos, folders, folderName) ==
    UNION {{toString(u) : u \in getChangedResources(repos[k])} :
              k \in {j \in 1..Len(repos) :
                        /\ getWorkspaceFolderOfRoot(repos[j].rootUri) \in 1..Len(folders)
                        /\ folders[getWorkspaceFolderOfRoot(repos[j].rootUri)] = folderName}}

\* the localChanges set is not consulted
willChangeLocalContentsWithoutLocalChanges(lc, uri, incomingChange, fs) ==
    CASE incomingChange.type = "Addition" ->
             IF fs[uri] = NoFile THEN "throw"
             ELSE IF sha1Hex(incomingChange.contents) # sha1Hex(encodeBase64(fs[uri]))
                  THEN "true" ELSE "false"
      [] incomingChange.type = "Deletion" ->
             IF fs[uri] # NoFile THEN "true" ELSE "false"
      [] OTHER -> "throw"

\* willChangeLocalContents: "true", "false", or "throw" when it rejects
willChangeLocalContents(lc, uri, incomingChange, fs) ==
    IF toString(uri) \notin lc THEN "false"
    ELSE CASE incomingChange.type = "Addition" ->
                 IF fs[uri] = NoFile THEN "throw"
                 ELSE IF sha1Hex(incomingChange.contents) # sha1Hex(encodeBase64(fs[uri]))
                      THEN "true" ELSE "false"
           [] incomingChange.type = "Deletion" ->
                 IF fs[uri] # NoFile THEN "true" ELSE "false"
           [] OTHER -> "throw"

\* the changes collected for the folders before are returned
keepCollectedChanges(chg) == chg

\* what generateChanges returns as changes when a folder has no folderRoot
noFolderRootChanges(chg) == <<>>

\* the edit session is deleted also when the resume failed
CatchDeletingSession ==
    /\ pc' = "done"
    /\ outcome' = "Failed"
    /\ ref' = Undefined
    /\ force' = FALSE
    /\ editSession' = NoSession
    /\ changes' = <<>>
    /\ conflictingChanges' = <<>>
    /\ fi' = 0
    /\ wi' = 0
    /\ folderRoot' = 0
    /\ localChanges' = {}
    /\ ci' = 0
    /\ ai' = 0
    /\ notifications' = notifications \cup {[severity |-> "error", message |-> "resume failed"]}
    /\ stored' = NoSession
    /\ deleteCalls' = deleteCalls + 1
    /\ UNCHANGED files

\* the catch block of resumeEditSession
Catch ==
    /\ Return("Failed")
    /\ notifications' = notifications \cup {[severity |-> "error", message |-> "resume failed"]}
    /\ UNCHANGED <<files, stored, deleteCalls>>

\* the changes are applied without showing the dialog
AfterGenerateChangesSkippingDialog(chg, confl, o) ==
    IF Len(chg) = 0
    THEN Return(o)
    ELSE /\ pc' = "apply"
         /\ ai' = 1
         /\ changes' = chg
         /\ conflictingChanges' = confl
         /\ fi' = 0
         /\ wi' = 0
         /\ folderRoot' = 0
         /\ localChanges' = {}
         /\ ci' = 0
         /\ UNCHANGED <<outcome, ref, force, editSession>>

\* resumeEditSession once generateChanges has returned chg and confl
AfterGenerateChanges(chg, confl, o) ==
    IF Len(chg) = 0
    THEN Return(o)
    ELSE /\ pc' = IF Len(confl) > 0 THEN "confirm" ELSE "apply"
         /\ ai' = IF Len(confl) > 0 THEN 0 ELSE 1
         /\ changes' = chg
         /\ conflictingChanges' = confl
         /\ fi' = 0
         /\ wi' = 0
         /\ folderRoot' = 0
         /\ localChanges' = {}
         /\ ci' = 0
         /\ UNCHANGED <<outcome, ref, force, editSession>>

CurrentFolder == editSession.folders[fi]

\* folder.canonicalIdentity is absent: match by name
MatchByName ==
    /\ pc = "match"
    /\ CurrentFolder.canonicalIdentity = Undefined
    /\ LET root == findFolderByName(workspaceFolders, CurrentFolder.name) IN
       IF root = 0
       THEN LET chg == noFolderRootChanges(changes) IN
            AfterGenerateChanges(chg, IF Len(chg) = 0 THEN <<>> ELSE conflictingChanges, "NoMatch")
       ELSE /\ folderRoot' = root
            /\ localChanges' = collectLocalChanges(repositories, workspaceFolders, CurrentFolder.name)
            /\ ci' = 1
            /\ pc' = "changes"
            /\ UNCHANGED <<ref, force, editSession, changes, conflictingChanges, fi, wi, ai, outcome>>
    /\ matched' = IF findFolderByName(workspaceFolders, CurrentFolder.name) = 0
                  THEN matched ELSE matched + 1
    /\ UNCHANGED <<envVars, effects, scan>>

\* one iteration of the loop over workspaceFolders: the identity provider answers
\* identity, and match when it is asked to compare
MatchByIdentity(identity, match) ==
    /\ pc = "match"
    /\ CurrentFolder.canonicalIdentity # Undefined
    /\ wi <= Len(workspaceFolders)
    /\ (match = "NotAsked") <=> (identity = CurrentFolder.canonicalIdentity \/ identity = Undefined)
    /\ scan' = Append(scan, [folder |-> wi,
                             identity |-> identity,
                             canonicalIdentity |-> CurrentFolder.canonicalIdentity,
                             match |-> match])
    /\ prompts' = IF surfacesPartialMatch(identity, CurrentFolder.canonicalIdentity, match,
                                          partialMatchesEnabled, force)
                  THEN prompts \cup {<<fi, wi>>} ELSE prompts
    /\ IF identityResolves(identity, CurrentFolder.canonicalIdentity, match,
                           partialMatchesEnabled, force)
       THEN /\ folderRoot' = wi
            /\ localChanges' = collectLocalChanges(repositories, workspaceFolders, CurrentFolder.name)
            /\ ci' = 1
            /\ pc' = "changes"
            /\ matched' = matched + 1
            /\ UNCHANGED <<ref, force, editSession, changes, conflictingChanges, fi, wi, ai, outcome>>
       ELSE IF wi < Len(workspaceFolders)
       THEN /\ wi' = wi + 1
            /\ UNCHANGED <<ref, force, editSession, changes, conflictingChanges, fi, folderRoot,
                           localChanges, ci, ai, pc, outcome, matched>>
       ELSE /\ LET chg == noFolderRootChanges(changes) IN
               AfterGenerateChanges(chg, IF Len(chg) = 0 THEN <<>> ELSE conflictingChanges, "NoMatch")
            /\ UNCHANGED matched
    /\ UNCHANGED <<envVars, files, stored, notifications, userChoice, reads, deleteCalls, absentFor>>

\* one iteration of the loop over folder.workingChanges
DetectConflict ==
    /\ pc = "changes"
    /\ ci <= Len(CurrentFolder.workingChanges)
    /\ LET change == CurrentFolder.workingChanges[ci]
           uri == joinPath(folderRoot, change.relativeFilePath)
           resolved == [uri |-> uri, type |-> change.type, contents |-> change.contents]
           verdict == willChangeLocalContents(localChanges, uri, change, files)
       IN IF verdict = "throw"
          THEN Catch
          ELSE /\ changes' = Append(changes, resolved)
               /\ conflictingChanges' = IF verdict = "true"
                                        THEN Append(conflictingChanges, resolved)
                                        ELSE conflictingChanges
               /\ ci' = ci + 1
               /\ UNCHANGED <<ref, force, editSession, fi, wi, folderRoot, localChanges, ai,
                              pc, outcome, notifications, files, stored, deleteCalls>>
    /\ UNCHANGED <<envVars, prompts, userChoice, reads, scan, absentFor, matched>>

\* the working changes of the folder are done: next folder, or generateChanges returns
NextFolder ==
    /\ pc = "changes"
    /\ ci > Len(CurrentFolder.workingChanges)
    /\ IF fi < Len(editSession.folders)
       THEN /\ fi' = fi + 1
            /\ wi' = 1
            /\ pc' = "match"
            /\ folderRoot' = 0
            /\ localChanges' = {}
            /\ ci' = 0
            /\ UNCHANGED <<ref, force, editSession, changes, conflictingChanges, ai, outcome>>
       ELSE AfterGenerateChanges(changes, conflictingChanges, "NoChanges")
    /\ scan' = <<>>
    /\ UNCHANGED <<envVars, effects, matched>>

\* ------------------------------------------- resumeEditSession, confirm and apply
\* the answer is compared with the index of the yes button
userCancelledWrongButton(choice) == choice = 1

\* result.choice === 0 (cancelId)
userCancelled(choice) == choice = 0

\* the user answers the overwrite dialog
Confirm(choice) ==
    /\ pc = "confirm"
    /\ userChoice' = IF choice = 0 THEN "cancel" ELSE "yes"
    /\ IF userCancelled(choice)
       THEN Return("Cancelled")
       ELSE /\ pc' = "apply"
            /\ ai' = 1
            /\ UNCHANGED <<ref, force, editSession, changes, conflictingChanges, matchLocals, outcome>>
    /\ UNCHANGED <<envVars, files, stored, notifications, prompts, reads, deleteCalls, scan,
                   absentFor, matched>>

\* the contents of an addition are written as they are stored
applyChangeWithoutDecoding(fs, change, version) ==
    CASE change.type = "Addition" ->
             [fs EXCEPT ![change.uri] = change.contents]
      [] change.type = "Deletion" /\ fs[change.uri] # NoFile ->
             [fs EXCEPT ![change.uri] = NoFile]
      [] OTHER -> fs

\* the files after one resolved change is applied
applyChange(fs, change, version) ==
    CASE change.type = "Addition" ->
             [fs EXCEPT ![change.uri] = decodeEditSessionFileContent(version, change.contents)]
      [] change.type = "Deletion" /\ fs[change.uri] # NoFile ->
             [fs EXCEPT ![change.uri] = NoFile]
      [] OTHER -> fs

\* the loop over changes stops one change early
applyFinishedEarly(i, chg) == i >= Len(chg)

\* the loop over changes has ended
applyFinished(i, chg) == i > Len(chg)

\* one iteration of the loop over changes
ApplyChange ==
    /\ pc = "apply"
    /\ ~applyFinished(ai, changes)
    /\ files' = applyChange(files, changes[ai], editSession.version)
    /\ ai' = ai + 1
    /\ UNCHANGED <<envVars, stored, notifications, prompts, userChoice, reads, deleteCalls,
                   pc, outcome, ref, force, editSession, changes, conflictingChanges, matchLocals,
                   scan, absentFor, matched>>

\* editSessionsStorageService.delete(ref)
storageDelete(st, r) == IF r = StoredRef THEN NoSession ELSE st

\* all changes are applied: the edit session is deleted and resumeEditSession returns
DeleteSession ==
    /\ pc = "apply"
    /\ applyFinished(ai, changes)
    /\ stored' = storageDelete(stored, ref)
    /\ deleteCalls' = deleteCalls + 1
    /\ Return("Done")
    /\ UNCHANGED <<envVars, files, notifications, prompts, userChoice, reads, scan, absentFor,
                   matched>>

\* the step resumeEditSession is at awaits the identity provider or the file service
OperationInFlight ==
    \/ /\ pc = "match"
       /\ CurrentFolder.canonicalIdentity # Undefined
       /\ wi <= Len(workspaceFolders)
    \/ /\ pc = "changes"
       /\ ci <= Len(CurrentFolder.workingChanges)
       /\ toString(joinPath(folderRoot, CurrentFolder.workingChanges[ci].relativeFilePath))
              \in localChanges
    \/ /\ pc = "apply"
       /\ ~applyFinished(ai, changes)
       /\ changes[ai].type \in {"Addition", "Deletion"}

\* the awaited call rejects
Fail ==
    /\ OperationInFlight
    /\ Catch
    /\ UNCHANGED <<envVars, prompts, userChoice, reads, scan, absentFor, matched>>

\* the calls of resumeEditSession: with the ref of the environment or of the command
\* (ref?, undefined, undefined), at startup and on sign-in (undefined, true), and from
\* the prompt of a partial match (ref, false, true)
ResumeCalls ==
    {[ref |-> r, silent |-> FALSE, force |-> FALSE] : r \in Refs \cup {Undefined}}
    \cup {[ref |-> Undefined, silent |-> TRUE, force |-> FALSE]}
    \cup {[ref |-> r, silent |-> FALSE, force |-> TRUE] : r \in IF partialMatchesEnabled THEN Refs ELSE {}}

Next ==
    \/ \E call \in ResumeCalls, signedIn \in BOOLEAN :
          ResumeEditSession(call.ref, call.silent, call.force, signedIn)
    \/ MatchByName
    \/ \E identity \in Identities \cup {Undefined}, match \in Matches \cup {"NotAsked"} :
          MatchByIdentity(identity, match)
    \/ DetectConflict
    \/ NextFolder
    \/ \E choice \in {0, 1} : Confirm(choice)
    \/ ApplyChange
    \/ DeleteSession
    \/ Fail

Spec == Init /\ [][Next]_vars

\* resumeEditSession when the stored edit session holds a change of an unknown type
InitMalformed == InitFrom(MalformedEditSessions)

SpecMalformed == InitMalformed /\ [][Next]_vars

\* --------------------------------------------------------- storeEditSession
\* the uris of a Set<URI> in the order for..of visits them
RECURSIVE inOrder(_)
inOrder(uris) ==
    IF uris = {} THEN <<>>
    ELSE LET first == CHOOSE u \in uris : \A v \in uris : u[1] <= v[1]
         IN <<first>> \o inOrder(uris \ {first})

\* the location a URI object names: the file service resolves a uri by its location,
\* whichever object carries it
fsPath(uri) == <<uri[1], uri[2]>>

\* relativePath(workspaceFolder.uri, uri)
relativePath(folderUri, uri) == uri[2]

\* a directory is taken for a file
statSaysNotFileNever(fs, uri) == FALSE

\* (await fileService.stat(uri)).isFile is false; a stat that rejects is swallowed
statSaysNotFile(fs, uri) == fs[fsPath(uri)] = Directory

\* the body of the loop over trackedUris: the working changes pushed for uris
RECURSIVE collectWorkingChanges(_, _)
collectWorkingChanges(fs, uris) ==
    IF uris = <<>> THEN <<>>
    ELSE LET uri == Head(uris)
             rest == collectWorkingChanges(fs, Tail(uris))
         IN IF getWorkspaceFolder(uri) = 0 THEN rest
            ELSE IF statSaysNotFile(fs, uri) THEN rest
            ELSE IF fs[fsPath(uri)] # NoFile
                 THEN <<AdditionChange(relativePath(getWorkspaceFolder(uri), uri),
                                       fs[fsPath(uri)])>> \o rest
                 ELSE <<DeletionChange(relativePath(getWorkspaceFolder(uri), uri))>> \o rest

\* name: the workspace folder of rootUri, else of the first uri that has one, else ''
folderName(folders, rootUri, uris) ==
    IF getWorkspaceFolderOfRoot(rootUri) # 0 THEN folders[getWorkspaceFolderOfRoot(rootUri)]
    ELSE IF \E i \in 1..Len(uris) : getWorkspaceFolder(uris[i]) # 0
         THEN folders[getWorkspaceFolder(
                  uris[CHOOSE i \in 1..Len(uris) :
                          /\ getWorkspaceFolder(uris[i]) # 0
                          /\ \A j \in 1..(i - 1) : getWorkspaceFolder(uris[j]) = 0])]
         ELSE ""

\* the Folder pushed for one repository
buildFolder(repository, folders, fs, identifier) ==
    LET trackedUris == inOrder(getChangedResources(repository))
    IN [workingChanges |-> collectWorkingChanges(fs, trackedUris),
        name |-> folderName(folders, repository.rootUri, trackedUris),
        canonicalIdentity |-> IF getWorkspaceFolderOfRoot(repository.rootUri) # 0
                              THEN identifier[getWorkspaceFolderOfRoot(repository.rootUri)]
                              ELSE Undefined]

\* hasEdits is taken for set whatever was pushed
hasEditsAlways(sessionFolders) == TRUE

\* hasEdits: it is set on the way to each push and nowhere else
hasEdits(sessionFolders) ==
    \E k \in 1..Len(sessionFolders) : sessionFolders[k].workingChanges # <<>>

\* the notification of the catch block of storeEditSession; only a
\* UserDataSyncStoreError is reported
writeFailureNotifications(writeResult) ==
    CASE writeResult = "TooLarge" -> {[severity |-> "error", message |-> "payload too large"]}
      [] writeResult = "StoreError" -> {[severity |-> "error", message |-> "payload failed"]}
      [] OTHER -> {}

\* storeEditSession(fromStoreCommand): identifier is what the identity provider answers
\* for each workspace folder, writeResult how the storage service's write ends
storeEditSession(fromStoreCommand, identifier, writeResult, newRef) ==
    /\ pc = "idle"
    /\ ~storeCall.called
    /\ LET sessionFolders == [k \in 1..Len(repositories) |->
                                 buildFolder(repositories[k], workspaceFolders, files, identifier)]
           data == [folders |-> sessionFolders, version |-> EditSessionSchemaVersion]
       IN IF ~hasEdits(sessionFolders)
          THEN /\ notifications' = IF fromStoreCommand
                                   THEN notifications \cup
                                            {[severity |-> "info", message |-> "no edits to store"]}
                                   ELSE notifications
               /\ storeCall' = [called |-> TRUE, writes |-> 0, data |-> NoSession,
                                writeResult |-> Undefined,
                                result |-> Undefined, identifier |-> identifier]
               /\ UNCHANGED <<stored, stored0>>
          ELSE IF writeResult = "ok"
          THEN /\ stored' = data
               /\ stored0' = data
               /\ storeCall' = [called |-> TRUE, writes |-> 1, data |-> data,
                                writeResult |-> writeResult,
                                result |-> newRef, identifier |-> identifier]
               /\ UNCHANGED notifications
          ELSE /\ notifications' = notifications \cup writeFailureNotifications(writeResult)
               /\ storeCall' = [called |-> TRUE, writes |-> 1, data |-> data,
                                writeResult |-> writeResult,
                                result |-> Undefined, identifier |-> identifier]
               /\ UNCHANGED <<stored, stored0>>
    /\ UNCHANGED <<workspaceFolders, files, repositories, partialMatchesEnabled, files0, pc,
                   locals, outcome, prompts, scan, userChoice, reads, deleteCalls, absentFor,
                   matched, watcherVars>>

\* storeEditSession called by the store command or at shutdown
StoreEditSession(fromStoreCommand, identifier, writeResult) ==
    /\ storeEditSession(fromStoreCommand, identifier, writeResult, StoredRef)
    /\ UNCHANGED triggerVars

\* how write can end: with a ref, with a UserDataSyncStoreError (TooLarge or another
\* code), or with another error
WriteResults == {"ok", "TooLarge", "StoreError", "Error"}

MaxRepositories == 2

\* the uris a repository can report: in a workspace folder, or in none (folder 0)
ResourceUris(n) == {joinPath(i, p) : i \in 0..n, p \in Paths}

\* the state when storeEditSession is called
InitStore ==
    /\ \E n \in 0..MaxLocalFolders :
         /\ workspaceFolders \in [1..n -> Names]
         /\ files \in [ResourceUris(n) -> {"x", NoFile, Directory}]
         /\ repositories \in SeqsFromTo(
                [rootUri : 0..n, groups : {<<elements>> : elements \in SUBSET ResourceUris(n)}],
                0, MaxRepositories)
    /\ stored = NoSession
    /\ partialMatchesEnabled = FALSE
    /\ pc = "idle"
    /\ ref = Undefined
    /\ force = FALSE
    /\ editSession = NoSession
    /\ changes = <<>>
    /\ conflictingChanges = <<>>
    /\ fi = 0
    /\ wi = 0
    /\ folderRoot = 0
    /\ localChanges = {}
    /\ ci = 0
    /\ ai = 0
    /\ outcome = "None"
    /\ notifications = {}
    /\ prompts = {}
    /\ scan = <<>>
    /\ userChoice = "none"
    /\ reads = 0
    /\ deleteCalls = 0
    /\ absentFor = NoCall
    /\ matched = 0
    /\ files0 = files
    /\ stored0 = stored
    /\ storeCall = NoStoreCall
    /\ NoTriggers
    /\ NoWatcher

NextStore ==
    \E fromStoreCommand \in BOOLEAN,
       identifier \in [1..Len(workspaceFolders) -> {"i1", Undefined}],
       writeResult \in WriteResults :
        StoreEditSession(fromStoreCommand, identifier, writeResult)

SpecStore == InitStore /\ [][NextStore]_vars

\* ------------------------------- storeEditSession over several resource groups
MaxGroups == 2
MaxUriObjects == 2

\* no resumeEditSession and no storeEditSession has been called
NothingCalled ==
    /\ pc = "idle"
    /\ ref = Undefined
    /\ force = FALSE
    /\ editSession = NoSession
    /\ changes = <<>>
    /\ conflictingChanges = <<>>
    /\ fi = 0
    /\ wi = 0
    /\ folderRoot = 0
    /\ localChanges = {}
    /\ ci = 0
    /\ ai = 0
    /\ outcome = "None"
    /\ notifications = {}
    /\ prompts = {}
    /\ scan = <<>>
    /\ userChoice = "none"
    /\ reads = 0
    /\ deleteCalls = 0
    /\ absentFor = NoCall
    /\ matched = 0
    /\ storeCall = NoStoreCall

\* the URI objects the resources of the groups can carry as sourceUri: a location
\* (a workspace folder or none, and a path) and the object that carries it
UriObjects(n) == {<<i, p, o>> : i \in 0..n, p \in Paths, o \in 1..MaxUriObjects}

\* the state when storeEditSession is called for one repository whose provider has
\* up to MaxGroups resource groups (such as an index and a working tree)
InitGroups ==
    /\ workspaceFolders \in [1..1 -> Names]
    /\ files \in [ResourceUris(1) -> {"x", NoFile, Directory}]
    /\ repositories \in SeqsFromTo(
           [rootUri : 0..1, groups : SeqsFromTo(SUBSET UriObjects(1), 0, MaxGroups)], 1, 1)
    /\ stored = NoSession
    /\ partialMatchesEnabled = FALSE
    /\ files0 = files
    /\ stored0 = stored
    /\ NothingCalled
    /\ NoTriggers
    /\ NoWatcher

SpecGroups == InitGroups /\ [][NextStore]_vars

\* ------------------------------------- storeEditSession, then resumeEditSession
\* the state when storeEditSession is called in a workspace whose changed resources
\* are all existing files of the workspace folders
InitRoundTrip ==
    /\ \E n \in 1..MaxLocalFolders :
         /\ workspaceFolders \in [1..n -> Names]
         /\ files \in [FolderUris(n) -> Bytes \cup {NoFile}]
         /\ repositories \in SeqsFromTo(
                [rootUri : 0..n,
                 groups : {<<elements>> :
                              elements \in SUBSET {u \in FolderUris(n) : files[u] \in Bytes}}],
                1, MaxRepositories)
    /\ stored = NoSession
    /\ partialMatchesEnabled = FALSE
    /\ pc = "idle"
    /\ ref = Undefined
    /\ force = FALSE
    /\ editSession = NoSession
    /\ changes = <<>>
    /\ conflictingChanges = <<>>
    /\ fi = 0
    /\ wi = 0
    /\ folderRoot = 0
    /\ localChanges = {}
    /\ ci = 0
    /\ ai = 0
    /\ outcome = "None"
    /\ notifications = {}
    /\ prompts = {}
    /\ scan = <<>>
    /\ userChoice = "none"
    /\ reads = 0
    /\ deleteCalls = 0
    /\ absentFor = NoCall
    /\ matched = 0
    /\ files0 = files
    /\ stored0 = stored
    /\ storeCall = NoStoreCall
    /\ NoTriggers
    /\ NoWatcher

\* the identity provider answers at resume what it answered at store: the same
\* identity for a folder, and no match for two different identities
MatchByStoredIdentity ==
    /\ storeCall.called
    /\ pc = "match"
    /\ wi <= Len(workspaceFolders)
    /\ LET identity == storeCall.identifier[wi]
       IN MatchByIdentity(identity,
                          IF identity = CurrentFolder.canonicalIdentity \/ identity = Undefined
                          THEN "NotAsked" ELSE "None")

NextRoundTrip ==
    \/ \E fromStoreCommand \in BOOLEAN,
          identifier \in [1..Len(workspaceFolders) -> Identities \cup {Undefined}],
          writeResult \in WriteResults :
           StoreEditSession(fromStoreCommand, identifier, writeResult)
    \/ \E call \in ResumeCalls, signedIn \in BOOLEAN :
          ResumeEditSession(call.ref, call.silent, call.force, signedIn)
    \/ MatchByName
    \/ MatchByStoredIdentity
    \/ DetectConflict
    \/ NextFolder
    \/ \E choice \in {0, 1} : Confirm(choice)
    \/ ApplyChange
    \/ DeleteSession
    \/ Fail

SpecRoundTrip == InitRoundTrip /\ [][NextRoundTrip]_vars

\* ------------------------------------------------- who calls resumeEditSession
MaxResumes == 3
MaxSignIns == 2

\* every variable of a call of resumeEditSession but the prompts shown
notPrompts ==
    <<workspaceFolders, files, repositories, stored, partialMatchesEnabled, pc, ref, force,
      editSession, changes, conflictingChanges, fi, wi, folderRoot, localChanges, ci, ai,
      outcome, notifications, scan, userChoice, reads, deleteCalls, absentFor,
      matched, files0, stored0, storeCall>>

\* this.resumeEditSession(ref, silent, force) is called: the call runs from now on
\* until its promise settles; nothing in the callers or in resumeEditSession waits
\* for a call that is already running
callResumeEditSession(by, r, silent, frc) ==
    /\ Len(resumes) < MaxResumes
    /\ resumes' = Append(resumes, [by |-> by, ref |-> r, silent |-> silent, force |-> frc,
                                   running |-> TRUE])

\* the calls of resumeEditSession that are in flight
InFlight == {i \in DOMAIN resumes : resumes[i].running}

\* autoResumeEditSession, called by the constructor, up to its first await
AutoResumeEditSession ==
    /\ autoPc = "start"
    /\ LET shouldAutoResumeOnReload == environment.autoResume = "onReload"
       IN IF environment.editSessionId # Undefined
          THEN /\ callResumeEditSession("startup", environment.editSessionId, FALSE, FALSE)
               /\ autoPc' = "resuming"
               /\ UNCHANGED <<environment, signInListener>>
          ELSE IF shouldAutoResumeOnReload /\ environment.isSignedIn
          THEN /\ callResumeEditSession("startup", Undefined, TRUE, FALSE)
               /\ autoPc' = "resuming"
               /\ UNCHANGED <<environment, signInListener>>
          ELSE IF /\ shouldAutoResumeOnReload
                  /\ environment.continueOn # Undefined
                  /\ ~environment.isSignedIn
                  /\ ~environment.applicationLaunchedViaContinueOn
          THEN /\ environment' = [environment EXCEPT !.applicationLaunchedViaContinueOn = TRUE]
               /\ autoPc' = "initialize"
               /\ UNCHANGED <<resumes, signInListener>>
          ELSE IF /\ shouldAutoResumeOnReload
                  /\ ~environment.isSignedIn
                  /\ environment.applicationLaunchedViaContinueOn
          THEN /\ signInListener' = TRUE
               /\ autoPc' = "done"
               /\ UNCHANGED <<environment, resumes>>
          ELSE /\ autoPc' = "done"
               /\ UNCHANGED <<environment, resumes, signInListener>>
    /\ UNCHANGED <<signIns, continueCall, editSessionVars, watcherVars>>

\* await editSessionsStorageService.initialize(true) settles: the user signed in,
\* or did not, or the call rejected; line 183 then reads isSignedIn
InitializeReturns(result) ==
    /\ autoPc = "initialize"
    /\ LET isSignedIn == environment.isSignedIn \/ result = "signedIn"
       IN CASE result = "rejected" ->
                 /\ autoPc' = "done"
                 /\ UNCHANGED <<environment, resumes, signInListener>>
            [] result # "rejected" /\ isSignedIn ->
                 /\ environment' = [environment EXCEPT !.isSignedIn = TRUE]
                 /\ callResumeEditSession("startup", Undefined, TRUE, FALSE)
                 /\ autoPc' = "resuming"
                 /\ UNCHANGED signInListener
            [] OTHER ->
                 /\ signInListener' = TRUE
                 /\ autoPc' = "done"
                 /\ UNCHANGED <<environment, resumes>>
    /\ UNCHANGED <<signIns, continueCall, editSessionVars, watcherVars>>

\* the promise of the i-th call of resumeEditSession settles; autoResumeEditSession
\* awaits its own call, and clears editSessionId after the call made with it
ResumeReturns(i) ==
    /\ i \in InFlight
    /\ resumes' = [resumes EXCEPT ![i].running = FALSE]
    /\ IF resumes[i].by = "startup"
       THEN /\ autoPc' = "done"
            /\ environment' = IF resumes[i].ref # Undefined
                              THEN [environment EXCEPT !.editSessionId = Undefined]
                              ELSE environment
       ELSE UNCHANGED <<autoPc, environment>>
    /\ UNCHANGED <<signInListener, signIns, continueCall, editSessionVars, watcherVars>>

\* disposable.dispose() in the onDidSignIn listener: the listener is registered
\* no more
disposeNothing(listener) == listener
dispose(listener) == FALSE

\* editSessionsStorageService.onDidSignIn fires: the listener of
\* handlePendingEditSessions, when registered, disposes itself and calls
\* resumeEditSession without awaiting it
OnDidSignIn ==
    /\ ~environment.isSignedIn
    /\ signIns < MaxSignIns
    /\ signIns' = signIns + 1
    /\ IF signInListener
       THEN /\ signInListener' = dispose(signInListener)
            /\ callResumeEditSession("signIn", Undefined, TRUE, FALSE)
            /\ environment' = [environment EXCEPT !.isSignedIn = TRUE,
                                                  !.applicationLaunchedViaContinueOn = FALSE,
                                                  !.continueOn = Undefined]
       ELSE /\ environment' = [environment EXCEPT !.isSignedIn = TRUE]
            /\ UNCHANGED <<resumes, signInListener>>
    /\ UNCHANGED <<autoPc, continueCall, editSessionVars, watcherVars>>

\* editSessionsStorageService.onDidSignOut fires: the user signed out
OnDidSignOut ==
    /\ environment.isSignedIn
    /\ environment' = [environment EXCEPT !.isSignedIn = FALSE]
    /\ UNCHANGED <<autoPc, resumes, signInListener, signIns, continueCall, editSessionVars, watcherVars>>

\* ResumeLatestEditSessionAction.run(accessor, editSessionId), once the constructor
\* has registered it
ResumeLatestEditSessionAction(editSessionId) ==
    /\ autoPc # "start"
    /\ callResumeEditSession("command", editSessionId, FALSE, FALSE)
    /\ UNCHANGED <<environment, autoPc, signInListener, signIns, continueCall, editSessionVars, watcherVars>>

\* the i-th call, running without force, meets a partial identity match in
\* generateChanges and shows the prompt whose action resumes with force
PromptPartialMatch(i) ==
    /\ i \in InFlight
    /\ ~resumes[i].force
    /\ partialMatchesEnabled
    /\ prompts' = prompts \cup {[by |-> i, ref |-> resumes[i].ref]}
    /\ UNCHANGED <<notPrompts, triggerVars, watcherVars>>

\* the user chooses Resume in a prompt: run() calls resumeEditSession(ref, false, true)
RunResume(prompt) ==
    /\ prompt \in prompts
    /\ callResumeEditSession("prompt", prompt.ref, FALSE, TRUE)
    /\ prompts' = prompts \ {prompt}
    /\ UNCHANGED <<notPrompts, environment, autoPc, signInListener, signIns, continueCall, watcherVars>>

\* the state when the contribution is constructed
InitTriggers ==
    /\ environment \in [editSessionId : {Undefined, StoredRef},
                        continueOn : {Undefined, "continueOn"},
                        autoResume : {"onReload", "off"},
                        isSignedIn : BOOLEAN,
                        applicationLaunchedViaContinueOn : BOOLEAN]
    /\ autoPc = "start"
    /\ resumes = <<>>
    /\ signInListener = FALSE
    /\ signIns = 0
    /\ continueCall = NoContinue
    /\ partialMatchesEnabled \in BOOLEAN
    /\ workspaceFolders = <<"A">>
    /\ files = [u \in FolderUris(1) |-> NoFile]
    /\ repositories = <<>>
    /\ stored = NoSession
    /\ files0 = files
    /\ stored0 = stored
    /\ NothingCalled
    /\ NoWatcher

NextTriggers ==
    \/ AutoResumeEditSession
    \/ \E result \in {"signedIn", "notSignedIn", "rejected"} : InitializeReturns(result)
    \/ \E i \in 1..MaxResumes : ResumeReturns(i)
    \/ OnDidSignIn
    \/ OnDidSignOut
    \/ \E editSessionId \in {Undefined, StoredRef} : ResumeLatestEditSessionAction(editSessionId)
    \/ \E i \in 1..MaxResumes : PromptPartialMatch(i)
    \/ \E prompt \in prompts : RunResume(prompt)

SpecTriggers == InitTriggers /\ [][NextTriggers]_vars

\* ----------------------------------------------------- ContinueEditSessionAction
\* const queryParamName = 'editSessionId'
queryParamName == "editSessionId"

\* the refs the store can answer a write with, and the characters of each
NewRefs == {StoredRef, "r&2"}
chars(str) == CASE str = "r&2" -> <<"r", "&", "2">>
                [] OTHER -> <<str>>

\* the escape of one character of a URI component, and its reverse
escape(ch) == CASE ch = "&" -> "%26"
                [] ch = "=" -> "%3D"
                [] OTHER -> ch
unescape(ch) == CASE ch = "%26" -> "&"
                  [] ch = "%3D" -> "="
                  [] OTHER -> ch

\* the ref is appended as it is
encodeNothing(str) == str

\* encodeURIComponent(ref), character by character
encodeURIComponent(str) == [i \in DOMAIN str |-> escape(str[i])]

\* decodeURIComponent, as the destination applies it to the value of a parameter
decodeURIComponent(str) == [i \in DOMAIN str |-> unescape(str[i])]

\* the pieces of a string between the occurrences of a separator
RECURSIVE split(_, _)
split(str, separator) ==
    IF \A i \in DOMAIN str : str[i] # separator THEN <<str>>
    ELSE LET at == CHOOSE i \in DOMAIN str :
                      /\ str[i] = separator
                      /\ \A j \in 1..(i - 1) : str[j] # separator
         IN <<SubSeq(str, 1, at - 1)>> \o split(SubSeq(str, at + 1, Len(str)), separator)

\* the values the query gives for a parameter, as the destination parses the query
queryParameter(query, name) ==
    LET pieces == split(query, "&")
    IN {decodeURIComponent(SubSeq(pieces[k], 3, Len(pieces[k]))) :
           k \in {j \in DOMAIN pieces : /\ Len(pieces[j]) >= 2
                                        /\ pieces[j][1] = name
                                        /\ pieces[j][2] = "="}}

\* the destinations a continue-on command can answer with, without and with a query
DestinationUris == {[path |-> "d", query |-> <<>>],
                    [path |-> "d", query |-> <<"x", "=", "1">>]}

\* uri.with({ query: ... }): the ref is appended to the query of the destination
withEditSessionId(uri, storedRef) ==
    LET encodedRef == encodeURIComponent(chars(storedRef))
        appended == <<queryParamName, "=">> \o encodedRef \o <<"&", "continueOn", "=", "1">>
    IN [uri EXCEPT !.query = IF Len(uri.query) > 0
                             THEN uri.query \o <<"&">> \o appended
                             ELSE appended]

\* hasEditSession(): some repository reports a changed resource
hasEditSession == \E k \in 1..Len(repositories) : getChangedResources(repositories[k]) # {}

\* ContinueEditSessionAction.run(accessor, workspaceUri), up to its first await
ContinueEditSessionAction(workspaceUri, setting) ==
    /\ continueCall.pc = "idle"
    /\ continueCall' = [continueCall EXCEPT
           !.workspaceUri = workspaceUri,
           !.uri = workspaceUri,
           !.useEditSessionsWithContinueOn = setting,
           !.pc = IF workspaceUri = NoUri THEN "pick" ELSE "shouldStore"]
    /\ UNCHANGED <<environment, autoPc, resumes, signInListener, signIns, editSessionVars,
                   watcherVars>>

\* await pickContinueEditSessionDestination() settles with the command picked, or
\* with undefined when the quick pick was hidden; without a destination run returns
PickContinueEditSessionDestination(destination) ==
    /\ continueCall.pc = "pick"
    /\ continueCall' = [continueCall EXCEPT
           !.destination = destination,
           !.pc = IF destination = Undefined THEN "done" ELSE "shouldStore"]
    /\ UNCHANGED <<environment, autoPc, resumes, signInListener, signIns, editSessionVars,
                   watcherVars>>

\* shouldContinueOnWithEditSession(), up to its await of initialize(true)
ShouldContinueOnWithEditSession ==
    /\ continueCall.pc = "shouldStore"
    /\ LET answers(should) == [continueCall EXCEPT
                                  !.shouldStoreEditSession = should,
                                  !.pc = IF should THEN "store" ELSE "resolve"]
       IN continueCall' =
              IF environment.isSignedIn THEN answers(hasEditSession)
              ELSE IF continueCall.useEditSessionsWithContinueOn = "off" THEN answers(FALSE)
              ELSE IF hasEditSession THEN [continueCall EXCEPT !.pc = "initialize"]
              ELSE answers(FALSE)
    /\ UNCHANGED <<environment, autoPc, resumes, signInListener, signIns, editSessionVars,
                   watcherVars>>

\* return this.editSessionsStorageService.initialize(true) settles: the user signed
\* in, or did not
ContinueInitializeReturns(signedIn) ==
    /\ continueCall.pc = "initialize"
    /\ environment' = [environment EXCEPT !.isSignedIn = signedIn]
    /\ continueCall' = [continueCall EXCEPT
           !.shouldStoreEditSession = signedIn,
           !.pc = IF signedIn THEN "store" ELSE "resolve"]
    /\ UNCHANGED <<autoPc, resumes, signInListener, signIns, editSessionVars, watcherVars>>

\* ref = await withProgress(..., async () => that.storeEditSession(false))
ContinueStoreEditSession(identifier, writeResult, newRef) ==
    /\ continueCall.pc = "store"
    /\ storeEditSession(FALSE, identifier, writeResult, newRef)
    /\ continueCall' = [continueCall EXCEPT !.ref = storeCall'.result, !.pc = "resolve"]
    /\ UNCHANGED <<environment, autoPc, resumes, signInListener, signIns>>

\* uri = destination ? await that.resolveDestination(destination) : uri, and the
\* rest of run: the destination is opened with the ref, or without, or not at all
ResolveDestination(resolved) ==
    /\ continueCall.pc = "resolve"
    /\ continueCall.destination = Undefined => resolved = NoUri
    /\ LET uri == IF continueCall.destination # Undefined THEN resolved
                  ELSE continueCall.uri
           storedRef == continueCall.ref
           shouldStoreEditSession == continueCall.shouldStoreEditSession
       IN continueCall' =
              IF uri = NoUri
              THEN [continueCall EXCEPT !.uri = uri, !.pc = "done"]
              ELSE IF storedRef # Undefined /\ uri # NoDestinationUri
              THEN [continueCall EXCEPT !.uri = withEditSessionId(uri, storedRef),
                                        !.opened = withEditSessionId(uri, storedRef),
                                        !.pc = "done"]
              ELSE IF ~shouldStoreEditSession /\ uri # NoDestinationUri
              THEN [continueCall EXCEPT !.uri = uri, !.opened = uri, !.pc = "done"]
              ELSE IF storedRef = Undefined /\ shouldStoreEditSession
              THEN [continueCall EXCEPT !.uri = uri, !.warned = TRUE, !.pc = "done"]
              ELSE [continueCall EXCEPT !.uri = uri, !.pc = "done"]
    /\ UNCHANGED <<environment, autoPc, resumes, signInListener, signIns, editSessionVars,
                   watcherVars>>

\* the state when the Continue Working On command is run: one workspace folder, up
\* to one repository, the user signed in or not
InitContinue ==
    /\ workspaceFolders = <<"A">>
    /\ files \in [ResourceUris(1) -> {"x", NoFile}]
    /\ repositories \in SeqsFromTo(
           [rootUri : 0..1, groups : {<<elements>> : elements \in SUBSET ResourceUris(1)}],
           0, 1)
    /\ stored = NoSession
    /\ partialMatchesEnabled = FALSE
    /\ files0 = files
    /\ stored0 = stored
    /\ NothingCalled
    /\ environment \in {[NoEnvironment EXCEPT !.isSignedIn = signedIn] : signedIn \in BOOLEAN}
    /\ autoPc = "done"
    /\ resumes = <<>>
    /\ signInListener = FALSE
    /\ signIns = 0
    /\ continueCall = NoContinue
    /\ NoWatcher

NextContinue ==
    \/ \E workspaceUri \in DestinationUris \cup {NoUri}, setting \in {"prompt", "off"} :
           ContinueEditSessionAction(workspaceUri, setting)
    \/ \E destination \in {Undefined, "command"} : PickContinueEditSessionDestination(destination)
    \/ ShouldContinueOnWithEditSession
    \/ \E signedIn \in BOOLEAN : ContinueInitializeReturns(signedIn)
    \/ \E identifier \in [1..Len(workspaceFolders) -> {"i1", Undefined}],
          writeResult \in WriteResults, newRef \in NewRefs :
           ContinueStoreEditSession(identifier, writeResult, newRef)
    \/ \E resolved \in DestinationUris \cup {NoDestinationUri, NoUri} :
           ResolveDestination(resolved)

SpecContinue == InitContinue /\ [][NextContinue]_vars

\* ------------------------------------------------------------ ExtensionsWatcher
\* the extensionsResource of the default profile and of one more profile
MaxEvents == 2

Locations == {"p1", "p2"}
DefaultProfile == "p1"

\* the extensions: an identifier and the version of the manifest; the second one
\* carries no version
ExtensionSet == {[identifier |-> "A", version |-> "1.0.0"], [identifier |-> "b", version |-> ""]}

\* ExtensionIdentifier.toKey(id): the identifier in lower case
toKey(id) == CASE id = "A" -> "a" [] OTHER -> id

\* getKey(identifier, version): `${ExtensionIdentifier.toKey(identifier.id)}@${version}`
getKey(identifier, version) == <<toKey(identifier), "@", version>>

\* getIdAndVersion(key): the id, and the version when the key ends in one
getIdAndVersion(key) == <<toKey(key[1]), IF key[3] = "" THEN Undefined ELSE key[3]>>

\* what fromKey answers for a key without version: undefined
NoExtension == [identifier |-> Undefined, version |-> Undefined]

\* fromKey(key)
fromKey(key) ==
    LET idAndVersion == getIdAndVersion(key)
    IN IF idAndVersion[2] # Undefined
       THEN [identifier |-> idAndVersion[1], version |-> idAndVersion[2]]
       ELSE NoExtension

\* the key of an installed or scanned extension
keyOf(extension) == getKey(extension.identifier, extension.version)
keysOf(extensions) == {keyOf(extension) : extension \in extensions}

\* the set of a new key is created and the profile is not added to it
addExtensionWithKeyWithoutAdd(all, key, extensionsProfileLocation) ==
    IF key \in DOMAIN all THEN all
    ELSE [k \in DOMAIN all \cup {key} |-> IF k = key THEN {} ELSE all[k]]

\* the key is left with the added profile only
addExtensionWithKeyReplacingProfiles(all, key, extensionsProfileLocation) ==
    [k \in DOMAIN all \cup {key} |-> IF k = key THEN {extensionsProfileLocation} ELSE all[k]]

\* addExtensionWithKey(key, extensionsProfileLocation)
addExtensionWithKey(all, key, extensionsProfileLocation) ==
    IF key \in DOMAIN all
    THEN [all EXCEPT ![key] = @ \cup {extensionsProfileLocation}]
    ELSE [k \in DOMAIN all \cup {key} |->
             IF k = key THEN {extensionsProfileLocation} ELSE all[k]]

\* the key stays in the map when its last profile goes
removeExtensionWithKeyKeepingKey(all, key, profileLocation) ==
    IF key \in DOMAIN all THEN [all EXCEPT ![key] = @ \ {profileLocation}] ELSE all

\* removeExtensionWithKey(key, profileLocation)
removeExtensionWithKey(all, key, profileLocation) ==
    LET remaining == IF key \in DOMAIN all THEN all[key] \ {profileLocation} ELSE {}
    IN IF remaining = {}
       THEN [k \in DOMAIN all \ {key} |-> all[k]]
       ELSE [all EXCEPT ![key] = remaining]

\* the loops that add or remove the keys of several extensions for one location
RECURSIVE addExtensionsWithKeys(_, _, _)
addExtensionsWithKeys(all, keys, location) ==
    IF keys = {} THEN all
    ELSE LET key == CHOOSE k \in keys : TRUE
         IN addExtensionsWithKeys(addExtensionWithKey(all, key, location), keys \ {key}, location)

RECURSIVE removeExtensionsWithKeys(_, _, _)
removeExtensionsWithKeys(all, keys, location) ==
    IF keys = {} THEN all
    ELSE LET key == CHOOSE k \in keys : TRUE
         IN removeExtensionsWithKeys(removeExtensionWithKey(all, key, location),
                                     keys \ {key}, location)

\* the keys are taken for cached whatever profile references them
cachedOfAnyProfile(all, profileLocation) == DOMAIN all

\* onDidExtensionsProfileChange: cached, the keys that reference profileLocation
cached(all, profileLocation) == {key \in DOMAIN all : profileLocation \in all[key]}

\* asynchronous work: what runs, for which location, whether the scan has answered
\* and with which extensions, the profiles to populate afterwards, and whether
\* initialize waits for it
Work(op, location, added, join) ==
    [op |-> op, location |-> location, answer |-> "none", result |-> {}, added |-> added,
     join |-> join]
MigrateWork == Work("migrate", Undefined, {}, FALSE)
PopulateWork(location, join) == Work("populate", location, {}, join)
UninstallWork(added) == Work("uninstall", Undefined, added, FALSE)
ScanWork(location) == Work("scan", location, {}, FALSE)

\* extensionManagementService.markAsUninstalled(...extensions), called only with
\* at least one extension
MarkAsUninstalled(extensions, by) ==
    IF extensions = {}
    THEN UNCHANGED <<uninstalled, markAsUninstalledCall>>
    ELSE /\ uninstalled' = uninstalled \cup extensions
         /\ markAsUninstalledCall' = [called |-> 1 - markAsUninstalledCall.called,
                                      extensions |-> extensions, by |-> by]

\* the constructor called initialize, which awaits migrateDefaultProfileExtensions;
\* every extension is installed, and a profile lists any of them
InitWatcher ==
    /\ profiles \in {ps \in SUBSET Locations : DefaultProfile \in ps}
    /\ profileExtensions \in [Locations -> SUBSET ExtensionSet]
    /\ installed = ExtensionSet
    /\ uninstalled = {}
    /\ markAsUninstalledCall = NoMarkCall
    /\ allExtensions = <<>>
    /\ listenersRegistered = FALSE
    /\ pending = {MigrateWork}
    /\ removedProfiles = {}
    /\ profileOperation = NoOperation
    /\ onDidChangeExtensionsByAnotherSource = NoEvent
    /\ events = 0
    /\ lastScan = NoScan
    /\ lastOperation = NoCompletion
    /\ partialMatchesEnabled = FALSE
    /\ workspaceFolders = <<"A">>
    /\ files = [u \in FolderUris(1) |-> NoFile]
    /\ repositories = <<>>
    /\ stored = NoSession
    /\ files0 = files
    /\ stored0 = stored
    /\ NothingCalled
    /\ NoTriggers

\* initialize: migrateDefaultProfileExtensions returned, and
\* onDidChangeProfiles(this.userDataProfilesService.profiles, []) starts populating
MigrateDefaultProfileExtensionsReturns ==
    /\ UNCHANGED <<lastScan, lastOperation>>
    /\ UNCHANGED events
    /\ MigrateWork \in pending
    /\ pending' = (pending \ {MigrateWork}) \cup {PopulateWork(p, TRUE) : p \in profiles}
    /\ UNCHANGED <<profiles, profileExtensions, installed, uninstalled, markAsUninstalledCall,
                   allExtensions, listenersRegistered, removedProfiles, profileOperation,
                   onDidChangeExtensionsByAnotherSource, editSessionVars, triggerVars>>

\* extensionsProfileScannerService.scanProfileExtensions(location) reads the profile,
\* or fails; the caller continues later
ScanProfileExtensionsAnswers(work, ok) ==
    /\ UNCHANGED <<lastScan, lastOperation>>
    /\ UNCHANGED events
    /\ work \in pending
    /\ work.op \in {"populate", "scan"}
    /\ work.answer = "none"
    /\ pending' = (pending \ {work}) \cup
                      {IF ok THEN [work EXCEPT !.answer = "resolved",
                                               !.result = profileExtensions[work.location]]
                       ELSE [work EXCEPT !.answer = "rejected"]}
    /\ UNCHANGED <<profiles, profileExtensions, installed, uninstalled, markAsUninstalledCall,
                   allExtensions, listenersRegistered, removedProfiles, profileOperation,
                   onDidChangeExtensionsByAnotherSource, editSessionVars, triggerVars>>

\* populateExtensionsFromProfile continues after its scan. The populations of
\* initialize are awaited with Promise.all inside a try: when the last one ends, or
\* as soon as one rejects, initialize goes on to registerListeners and to
\* uninstallExtensionsNotInProfiles
PopulateExtensionsFromProfile(work) ==
    /\ UNCHANGED <<lastScan, lastOperation>>
    /\ UNCHANGED events
    /\ work \in pending
    /\ work.op = "populate"
    /\ work.answer # "none"
    /\ allExtensions' = IF work.answer = "rejected" THEN allExtensions
                        ELSE addExtensionsWithKeys(allExtensions, keysOf(work.result),
                                                   work.location)
    /\ LET others == pending \ {work}
           awaited == {w \in others : w.join}
       IN IF work.join /\ (work.answer = "rejected" \/ awaited = {})
          THEN /\ listenersRegistered' = TRUE
               /\ pending' = {[w EXCEPT !.join = FALSE] : w \in others} \cup {UninstallWork({})}
          ELSE /\ pending' = others
               /\ UNCHANGED listenersRegistered
    /\ UNCHANGED <<profiles, profileExtensions, installed, uninstalled, markAsUninstalledCall,
                   removedProfiles, profileOperation, onDidChangeExtensionsByAnotherSource,
                   editSessionVars, triggerVars>>

\* uninstallExtensionsNotInProfiles continues after getAllUserInstalled, which
\* answers or fails; onDidChangeProfiles then populates the added profiles
UninstallExtensionsNotInProfiles(work, ok) ==
    /\ UNCHANGED <<lastScan, lastOperation>>
    /\ UNCHANGED events
    /\ work \in pending
    /\ work.op = "uninstall"
    /\ LET toUninstall == {e \in installed \ uninstalled : keyOf(e) \notin DOMAIN allExtensions}
       IN MarkAsUninstalled(IF ok THEN toUninstall ELSE {}, "uninstallExtensionsNotInProfiles")
    /\ pending' = (pending \ {work}) \cup {PopulateWork(p, FALSE) : p \in work.added}
    /\ UNCHANGED <<profiles, profileExtensions, installed, allExtensions, listenersRegistered,
                   removedProfiles, profileOperation, onDidChangeExtensionsByAnotherSource,
                   editSessionVars, triggerVars>>

\* removeExtensionsFromProfile, up to its await: every key loses the removed profiles
RECURSIVE removeExtensionsFromProfiles(_, _)
removeExtensionsFromProfiles(all, removed) ==
    IF removed = {} THEN all
    ELSE LET removedProfile == CHOOSE p \in removed : TRUE
         IN removeExtensionsFromProfiles(
                removeExtensionsWithKeys(all, DOMAIN all, removedProfile),
                removed \ {removedProfile})

\* userDataProfilesService changes its profiles and fires onDidChangeProfiles; the
\* watcher hears it once registerListeners has run
OnDidChangeProfiles(added, removed) ==
    /\ UNCHANGED <<lastScan, lastOperation>>
    /\ events < MaxEvents
    /\ events' = events + 1
    /\ added \cup removed # {}
    /\ added \subseteq Locations \ (profiles \cup removedProfiles)
    /\ removed \subseteq profiles \ {DefaultProfile}
    /\ profiles' = (profiles \ removed) \cup added
    /\ removedProfiles' = removedProfiles \cup removed
    /\ IF listenersRegistered
       THEN /\ allExtensions' = removeExtensionsFromProfiles(allExtensions, removed)
            /\ pending' = pending \cup (IF removed # {} THEN {UninstallWork(added)}
                                        ELSE {PopulateWork(p, FALSE) : p \in added})
       ELSE UNCHANGED <<allExtensions, pending>>
    /\ UNCHANGED <<profileExtensions, installed, uninstalled, markAsUninstalledCall,
                   listenersRegistered, profileOperation, onDidChangeExtensionsByAnotherSource,
                   editSessionVars, triggerVars>>

\* the events of the scanner service: the extensions and the profile they name
ProfileExtensionsEvents ==
    [extensions : SUBSET ExtensionSet \ {{}}, profileLocation : Locations]

\* the scanner service starts adding extensions to a profile: onAddExtensions(e)
OnAddExtensions(e) ==
    /\ UNCHANGED <<lastScan, lastOperation>>
    /\ events < MaxEvents
    /\ events' = events + 1
    /\ profileOperation = NoOperation
    /\ e.profileLocation \in profiles
    /\ allExtensions' = IF listenersRegistered
                        THEN addExtensionsWithKeys(allExtensions, keysOf(e.extensions),
                                                   e.profileLocation)
                        ELSE allExtensions
    /\ profileOperation' = [kind |-> "add", event |-> e, handled |-> listenersRegistered,
                            before |-> allExtensions, announced |-> allExtensions']
    /\ UNCHANGED <<profiles, profileExtensions, installed, uninstalled, markAsUninstalledCall,
                   listenersRegistered, pending, removedProfiles,
                   onDidChangeExtensionsByAnotherSource, editSessionVars, triggerVars>>

\* the scanner service wrote the profile, or failed to: onDidAddExtensions(e)
OnDidAddExtensions(error) ==
    /\ UNCHANGED lastScan
    /\ UNCHANGED events
    /\ profileOperation.kind = "add"
    /\ LET e == profileOperation.event
       IN /\ profileExtensions' =
                 IF error THEN profileExtensions
                 ELSE [profileExtensions EXCEPT ![e.profileLocation] = @ \cup e.extensions]
          /\ allExtensions' =
                 IF ~listenersRegistered THEN allExtensions
                 ELSE IF error
                 THEN removeExtensionsWithKeys(allExtensions, keysOf(e.extensions),
                                               e.profileLocation)
                 ELSE addExtensionsWithKeys(allExtensions, keysOf(e.extensions),
                                            e.profileLocation)
    /\ profileOperation' = NoOperation
    /\ lastOperation' = failedOperation(profileOperation, error, listenersRegistered,
                                        allExtensions, allExtensions')
    /\ UNCHANGED <<profiles, installed, uninstalled, markAsUninstalledCall,
                   listenersRegistered, pending, removedProfiles,
                   onDidChangeExtensionsByAnotherSource, editSessionVars, triggerVars>>

\* the scanner service starts removing extensions of a profile: onRemoveExtensions(e)
OnRemoveExtensions(e) ==
    /\ UNCHANGED <<lastScan, lastOperation>>
    /\ events < MaxEvents
    /\ events' = events + 1
    /\ profileOperation = NoOperation
    /\ e.profileLocation \in profiles
    /\ e.extensions \subseteq profileExtensions[e.profileLocation]
    /\ allExtensions' = IF listenersRegistered
                        THEN removeExtensionsWithKeys(allExtensions, keysOf(e.extensions),
                                                      e.profileLocation)
                        ELSE allExtensions
    /\ profileOperation' = [kind |-> "remove", event |-> e, handled |-> listenersRegistered,
                            before |-> allExtensions, announced |-> allExtensions']
    /\ UNCHANGED <<profiles, profileExtensions, installed, uninstalled, markAsUninstalledCall,
                   listenersRegistered, pending, removedProfiles,
                   onDidChangeExtensionsByAnotherSource, editSessionVars, triggerVars>>

\* onDidRemoveExtensions: the extensions to uninstall, given the map after the loop
extensionsToUninstall(all, e) == {extension \in e.extensions : keyOf(extension) \notin DOMAIN all}

\* the scanner service wrote the profile, or failed to: onDidRemoveExtensions(e)
OnDidRemoveExtensions(error) ==
    /\ UNCHANGED lastScan
    /\ UNCHANGED events
    /\ profileOperation.kind = "remove"
    /\ LET e == profileOperation.event
           removedKeys == removeExtensionsWithKeys(allExtensions, keysOf(e.extensions),
                                                   e.profileLocation)
       IN /\ profileExtensions' =
                 IF error THEN profileExtensions
                 ELSE [profileExtensions EXCEPT ![e.profileLocation] = @ \ e.extensions]
          /\ IF ~listenersRegistered
             THEN UNCHANGED <<allExtensions, uninstalled, markAsUninstalledCall>>
             ELSE IF error
             THEN /\ allExtensions' = addExtensionsWithKeys(allExtensions, keysOf(e.extensions),
                                                            e.profileLocation)
                  /\ UNCHANGED <<uninstalled, markAsUninstalledCall>>
             ELSE /\ allExtensions' = removedKeys
                  /\ MarkAsUninstalled(extensionsToUninstall(removedKeys, e),
                                       "onDidRemoveExtensions")
    /\ profileOperation' = NoOperation
    /\ lastOperation' = failedOperation(profileOperation, error, listenersRegistered,
                                        allExtensions, allExtensions')
    /\ UNCHANGED <<profiles, installed, listenersRegistered, pending, removedProfiles,
                   onDidChangeExtensionsByAnotherSource, editSessionVars, triggerVars>>

\* another source (another window, a sync) rewrites the extensions of a profile
AnotherSourceWrites(location, extensions) ==
    /\ UNCHANGED <<lastScan, lastOperation>>
    /\ events < MaxEvents
    /\ events' = events + 1
    /\ location \in profiles
    /\ extensions # profileExtensions[location]
    /\ profileExtensions' = [profileExtensions EXCEPT ![location] = extensions]
    /\ UNCHANGED <<profiles, installed, uninstalled, markAsUninstalledCall, allExtensions,
                   listenersRegistered, pending, removedProfiles, profileOperation,
                   onDidChangeExtensionsByAnotherSource, editSessionVars, triggerVars>>

\* onDidFilesChange(e): onDidExtensionsProfileChange starts for every profile whose
\* extensionsResource the event contains
OnDidFilesChange(changed) ==
    /\ UNCHANGED <<lastScan, lastOperation>>
    /\ events < MaxEvents
    /\ events' = events + 1
    /\ listenersRegistered
    /\ changed \cap profiles # {}
    /\ pending' = pending \cup {ScanWork(p) : p \in changed \cap profiles}
    /\ UNCHANGED <<profiles, profileExtensions, installed, uninstalled, markAsUninstalledCall,
                   allExtensions, listenersRegistered, removedProfiles, profileOperation,
                   onDidChangeExtensionsByAnotherSource, editSessionVars, triggerVars>>

\* onDidExtensionsProfileChange: what it adds, removes and reports for the scanned
\* extensions, given the map when the scan has answered
scannedAdded(all, extensions, profileLocation) ==
    {extension \in extensions : keyOf(extension) \notin cached(all, profileLocation)}
scannedRemoved(all, extensions, profileLocation) ==
    {key \in cached(all, profileLocation) \ keysOf(extensions) : fromKey(key) # NoExtension}

\* onDidExtensionsProfileChange(profileLocation) continues after its scan
OnDidExtensionsProfileChange(work) ==
    /\ UNCHANGED events
    /\ work \in pending
    /\ work.op = "scan"
    /\ work.answer # "none"
    /\ pending' = pending \ {work}
    /\ IF work.answer = "rejected"
       THEN UNCHANGED <<allExtensions, onDidChangeExtensionsByAnotherSource, lastScan>>
       ELSE LET added == scannedAdded(allExtensions, work.result, work.location)
                removed == scannedRemoved(allExtensions, work.result, work.location)
            IN /\ lastScan' = [location |-> work.location, extensions |-> work.result,
                               cached |-> cached(allExtensions, work.location)]
               /\ allExtensions' =
                      removeExtensionsWithKeys(
                          addExtensionsWithKeys(allExtensions, keysOf(added), work.location),
                          removed, work.location)
               /\ onDidChangeExtensionsByAnotherSource' =
                      IF added # {} \/ removed # {}
                      THEN [fired |-> 1 - onDidChangeExtensionsByAnotherSource.fired,
                            added |-> {extension.identifier : extension \in added},
                            removed |-> {fromKey(key).identifier : key \in removed},
                            profileLocation |-> work.location]
                      ELSE onDidChangeExtensionsByAnotherSource
    /\ UNCHANGED <<profiles, profileExtensions, installed, uninstalled, markAsUninstalledCall,
                   listenersRegistered, removedProfiles, profileOperation, lastOperation,
                   editSessionVars, triggerVars>>

NextWatcher ==
    \/ MigrateDefaultProfileExtensionsReturns
    \/ \E work \in pending, ok \in BOOLEAN : ScanProfileExtensionsAnswers(work, ok)
    \/ \E work \in pending : PopulateExtensionsFromProfile(work)
    \/ \E work \in pending, ok \in BOOLEAN : UninstallExtensionsNotInProfiles(work, ok)
    \/ \E added \in SUBSET Locations, removed \in SUBSET Locations :
           OnDidChangeProfiles(added, removed)
    \/ \E e \in ProfileExtensionsEvents : OnAddExtensions(e)
    \/ \E error \in BOOLEAN : OnDidAddExtensions(error)
    \/ \E e \in ProfileExtensionsEvents : OnRemoveExtensions(e)
    \/ \E error \in BOOLEAN : OnDidRemoveExtensions(error)
    \/ \E location \in Locations, extensions \in SUBSET ExtensionSet :
           AnotherSourceWrites(location, extensions)
    \/ \E changed \in SUBSET Locations : OnDidFilesChange(changed)
    \/ \E work \in pending : OnDidExtensionsProfileChange(work)

SpecWatcher == InitWatcher /\ [][NextWatcher]_vars

\* ------------------------------------------------------------ properties
\* the uris the source control providers report as changed in workspace folder k
ChangedInFolder(k) ==
    UNION {getChangedResources(repositories[j]) :
              j \in {i \in 1..Len(repositories) : repositories[i].rootUri = k}}

\* the bytes an encoded content stands for
DecodedBytes(contents) == CHOOSE b \in Bytes : encodeBase64(b) = contents

\* the files once every resolved change of chg is in effect
RECURSIVE ExpectedFiles(_, _)
ExpectedFiles(fs, chg) ==
    IF chg = <<>> THEN fs
    ELSE ExpectedFiles(
             [fs EXCEPT ![Head(chg).uri] =
                 IF Head(chg).type = "Addition" THEN DecodedBytes(Head(chg).contents) ELSE NoFile],
             Tail(chg))

\* the number of working changes of an edit session
RECURSIVE CountChanges(_)
CountChanges(folders) ==
    IF folders = <<>> THEN 0 ELSE Len(Head(folders).workingChanges) + CountChanges(Tail(folders))

ChangedFiles == {u \in DOMAIN files : files[u] # files0[u]}

ResumeFailed == [severity |-> "error", message |-> "resume failed"]

\* C1: a file that the source control provider of its workspace folder reports as
\* changed, and that exists, has its content replaced or is deleted by a resume only
\* when the user answered yes to the overwrite dialog of that resume.
C1_NoOverwriteWithoutConfirmation ==
    \A u \in DOMAIN files :
        (u \in ChangedInFolder(u[1]) /\ files0[u] # NoFile /\ files[u] # files0[u])
            => userChoice = "yes"

\* C2: the storage service's delete is called at most once, and only when the loop
\* over the changes has handled every working change of the edit session and the
\* files hold the result of all of them.
C2_DeleteOnlyAfterAllApplied ==
    [][deleteCalls' # deleteCalls =>
          /\ deleteCalls = 0
          /\ deleteCalls' = 1
          /\ pc = "apply"
          /\ ai = Len(changes) + 1
          /\ Len(changes) = CountChanges(editSession.folders)
          /\ files = ExpectedFiles(files0, changes)
          /\ files' = files]_vars

C2_Witness ==
    /\ outcome = "Done"
    /\ deleteCalls = 1
    /\ stored = NoSession
    /\ Cardinality(ChangedFiles) = 2

\* C3: when a call of the identity provider or the file service rejects, the resume
\* shows the error "Failed to resume your edit session", leaves the stored edit
\* session alone and keeps the files as the changes applied so far left them.
C3_FailureKeepsSessionAndFiles ==
    [][(outcome' = "Failed" /\ outcome # "Failed") =>
          /\ ResumeFailed \in notifications'
          /\ stored' = stored0
          /\ deleteCalls' = 0
          /\ files' = files
          /\ pc' = "done"]_vars

C3_Witness ==
    /\ outcome = "Failed"
    /\ ResumeFailed \in notifications
    /\ stored # NoSession
    /\ ChangedFiles # {}

\* C4: once the user has cancelled the overwrite dialog, the resume has ended, every
\* file is as it was, and the stored edit session has not been deleted.
C4_CancelHasNoEffect ==
    userChoice = "cancel" =>
        /\ pc = "done"
        /\ outcome = "Cancelled"
        /\ files = files0
        /\ stored = stored0
        /\ stored # NoSession
        /\ deleteCalls = 0

C4_Witness ==
    /\ userChoice = "cancel"
    /\ pc = "done"
    /\ \E u \in DOMAIN files : u \in ChangedInFolder(u[1]) /\ files[u] = "y"

\* C5: a read that returns an edit session of a version above
\* EditSessionSchemaVersion ends the resume at once with the upgrade error: no
\* folder is matched, no file is changed and the edit session is not deleted.
C5_NewerVersionRejected ==
    [][(pc = "idle" /\ reads' = reads + 1 /\ stored.version > EditSessionSchemaVersion
            /\ ~absentFor'.absent) =>
          /\ pc' = "done"
          /\ outcome' = "VersionRejected"
          /\ notifications' = {[severity |-> "error", message |-> "client too old"]}
          /\ fi' = 0
          /\ matched' = 0
          /\ scan' = <<>>
          /\ prompts' = {}
          /\ files' = files0
          /\ stored' = stored0
          /\ deleteCalls' = 0]_vars

C5_Witness ==
    /\ outcome = "VersionRejected"
    /\ stored.version = EditSessionSchemaVersion + 1
    /\ reads = 1
    /\ files = files0

NoEditSessionInfo == [severity |-> "info", message |-> "no edit session"]

NoContentForRefWarning == [severity |-> "warn", message |-> "no edit session content for ref"]

C7_EmptyWorkspaceRefused ==
    Len(workspaceFolders) = 0 =>
        /\ pc \in {"idle", "done"}
        /\ outcome \in {"None", "EmptyWorkspace"}
        /\ reads = 0
        /\ notifications = {}
        /\ files = files0
        /\ stored = stored0
        /\ deleteCalls = 0

C7_Witness ==
    /\ Len(workspaceFolders) = 0
    /\ outcome = "EmptyWorkspace"
    /\ stored # NoSession

\* C8: when the matching of an edit session folder ends without a workspace folder,
\* the resume ends there: no file has been changed, also not for the folders matched
\* before, the stored edit session is kept and no notification is shown.
C8_NoMatchAbortsWithoutChanges ==
    /\ [][(pc = "match" /\ pc' \notin {"match", "changes"} /\ outcome' # "Failed") =>
             /\ pc' = "done"
             /\ outcome' = "NoMatch"]_vars
    /\ [](outcome = "NoMatch" =>
             /\ pc = "done"
             /\ files = files0
             /\ stored = stored0
             /\ deleteCalls = 0
             /\ notifications = {})

C8_Witness ==
    /\ outcome = "NoMatch"
    /\ matched = 1
    /\ Len(stored.folders) = 2
    /\ stored.folders[1].workingChanges # <<>>
    /\ files = files0

\* C9: an edit session folder without canonical identity gets as folderRoot a
\* workspace folder of exactly its name, and none iff there is no such workspace
\* folder; the identity provider is not called and no partial match is prompted.
C9_NameMatchOnly ==
    [][(pc = "match" /\ editSession.folders[fi].canonicalIdentity = Undefined) =>
          LET name == editSession.folders[fi].name
              sameName == {i \in 1..Len(workspaceFolders) : workspaceFolders[i] = name}
          IN /\ sameName = {} => (pc' = "done" /\ outcome' = "NoMatch" /\ matched' = matched)
             /\ sameName # {} => (pc' = "changes" /\ folderRoot' \in sameName /\ matched' = matched + 1)
             /\ scan = <<>>
             /\ scan' = <<>>
             /\ prompts' = prompts]_vars

C9_Witness ==
    /\ pc = "changes"
    /\ editSession.folders[fi].canonicalIdentity = Undefined
    /\ Len(workspaceFolders) = 2
    /\ workspaceFolders[1] # editSession.folders[fi].name
    /\ folderRoot = 2
    /\ scan = <<>>

\* the identity provider's answer makes the workspace folder the match
AnswerMatches(e, frc) ==
    \/ e.identity = e.canonicalIdentity
    \/ /\ e.identity # Undefined
       /\ \/ e.match = "Complete"
          \/ e.match = "Partial" /\ partialMatchesEnabled /\ frc

\* C10: an edit session folder with a canonical identity gets as folderRoot the
\* first workspace folder whose identity matches, whatever the folders are named;
\* it gets none only when the identity of no workspace folder matches.
C10_IdentityDecidesMatch ==
    /\ (pc = "changes" /\ editSession.folders[fi].canonicalIdentity # Undefined) =>
          /\ Len(scan) = folderRoot
          /\ \A k \in 1..Len(scan) :
                /\ scan[k].canonicalIdentity = editSession.folders[fi].canonicalIdentity
                /\ AnswerMatches(scan[k], force) <=> (k = folderRoot)
    /\ (outcome = "NoMatch" /\ scan # <<>>) =>
          /\ Len(scan) = Len(workspaceFolders)
          /\ \A k \in 1..Len(scan) : ~AnswerMatches(scan[k], FALSE)

C10_Witness ==
    /\ pc = "changes"
    /\ editSession.folders[fi].canonicalIdentity # Undefined
    /\ Len(workspaceFolders) = 2
    /\ workspaceFolders[1] = editSession.folders[fi].name
    /\ workspaceFolders[2] = editSession.folders[fi].name
    /\ folderRoot = 2
    /\ scan[1].identity = "i2"
    /\ scan[1].match = "None"
    /\ scan[2].identity = editSession.folders[fi].canonicalIdentity


C12_FirstMatchStopsScan ==
    (pc \in {"match", "changes"} /\ CurrentFolder.canonicalIdentity # Undefined) =>
        /\ \A k \in 1..Len(scan) : scan[k].folder = k
        /\ pc = "match" =>
              /\ folderRoot = 0
              /\ Len(scan) = wi - 1
              /\ \A k \in 1..Len(scan) : ~AnswerMatches(scan[k], force)
        /\ pc = "changes" =>
              /\ folderRoot \in 1..Len(workspaceFolders)
              /\ Len(scan) = folderRoot
              /\ AnswerMatches(scan[folderRoot], force)
              /\ \A k \in 1..(folderRoot - 1) : ~AnswerMatches(scan[k], force)

C12_Witness ==
    /\ pc = "changes"
    /\ Len(workspaceFolders) = 2
    /\ folderRoot = 1
    /\ Len(scan) = 1
    /\ scan[1].identity = CurrentFolder.canonicalIdentity
    /\ ci > Len(CurrentFolder.workingChanges)


\* the working change the loop of generateChanges is at, and the uri it resolves to
CurrentChange == CurrentFolder.workingChanges[ci]

CurrentUri == joinPath(folderRoot, CurrentChange.relativeFilePath)

AtWorkingChange == pc = "changes" /\ ci <= Len(CurrentFolder.workingChanges)

\* C13: for an incoming addition whose uri is in localChanges,
\* willChangeLocalContents answers true or false, and true exactly when the content
\* on disk is not the incoming content, whatever the state of the file on disk.
C13_AdditionVerdictByHash ==
    (AtWorkingChange /\ CurrentChange.type = "Addition" /\ toString(CurrentUri) \in localChanges) =>
        LET verdict == willChangeLocalContents(localChanges, CurrentUri, CurrentChange, files)
        IN /\ verdict \in {"true", "false"}
           /\ (verdict = "true") <=> (files[CurrentUri] # DecodedBytes(CurrentChange.contents))

\* C14: willChangeLocalContents answers false for a uri that is not in localChanges,
\* whatever is on disk at that uri, and the change is then not added to
\* conflictingChanges; a deletion whose uri is in localChanges is added to
\* conflictingChanges, once, exactly when the file exists.
C14_UnchangedOrDeletionVerdict ==
    [][AtWorkingChange =>
          LET resolved == [uri |-> CurrentUri, type |-> CurrentChange.type,
                           contents |-> CurrentChange.contents]
          IN /\ toString(CurrentUri) \notin localChanges =>
                   /\ \A b \in Bytes \cup {NoFile} :
                         willChangeLocalContents(localChanges, CurrentUri, CurrentChange,
                                                 [files EXCEPT ![CurrentUri] = b]) = "false"
                   /\ ci' = ci + 1
                   /\ conflictingChanges' = conflictingChanges
             /\ (toString(CurrentUri) \in localChanges /\ CurrentChange.type = "Deletion"
                    /\ ci' = ci + 1) =>
                   conflictingChanges' = IF files[CurrentUri] # NoFile
                                         THEN Append(conflictingChanges, resolved)
                                         ELSE conflictingChanges]_vars

C14_Witness ==
    /\ pc = "changes"
    /\ fi = 1
    /\ ci = 2
    /\ CurrentFolder.workingChanges[1].type = "Deletion"
    /\ Len(conflictingChanges) = 1
    /\ conflictingChanges[1].type = "Deletion"
    /\ toString(conflictingChanges[1].uri) \in localChanges
    /\ files[conflictingChanges[1].uri] # NoFile


\* C15: a resume of an edit session that holds a change of an unknown type does not
\* end as done and does not delete the edit session.
C15_UnknownTypeFailsFast ==
    HasUnknownChange(stored0) => (outcome # "Done" /\ deleteCalls = 0)


\* C16: as long as resumeEditSession is matching folders, detecting conflicts or
\* waiting for the answer to the dialog, no file is changed and nothing is deleted;
\* when it starts to apply, every folder of the edit session has a folderRoot,
\* changes holds every working change of every folder, conflictingChanges is part of
\* changes, and the user has answered yes if there was a conflicting change.
C16_ReconcileBeforeMutation ==
    /\ pc \in {"idle", "match", "changes", "confirm"} =>
          /\ files = files0
          /\ stored = stored0
          /\ deleteCalls = 0
    /\ pc \in {"idle", "match", "changes"} => userChoice = "none"
    /\ pc \in {"confirm", "apply"} =>
          /\ matched = Len(editSession.folders)
          /\ Len(changes) = CountChanges(editSession.folders)
          /\ \A k \in 1..Len(conflictingChanges) :
                \E j \in 1..Len(changes) : changes[j] = conflictingChanges[k]
    /\ pc = "confirm" => (conflictingChanges # <<>> /\ userChoice = "none")
    /\ pc = "apply" => (userChoice = IF conflictingChanges # <<>> THEN "yes" ELSE "none")

C16_Witness ==
    /\ pc = "apply"
    /\ ai = 1
    /\ Len(editSession.folders) = 2
    /\ Len(changes) = 2
    /\ Len(conflictingChanges) = 1
    /\ userChoice = "yes"
    /\ files = files0


\* the file a resolved change leaves at its uri
FileAfter(change) ==
    IF change.type = "Addition" THEN DecodedBytes(change.contents) ELSE NoFile

\* C17, as claimed: when a resume ends as done, the uri of every addition holds the
\* decoded contents of that addition, the uri of every deletion holds no file, and
\* every other file is as it was.
C17_EveryChangeInEffect ==
    [][outcome' = "Done" =>
          /\ \A k \in 1..Len(changes) : files'[changes[k].uri] = FileAfter(changes[k])
          /\ \A u \in DOMAIN files :
                (\A k \in 1..Len(changes) : changes[k].uri # u) => files'[u] = files0[u]]_vars

\* C17, amended: when a resume ends as done, every uri that some change resolved to
\* holds what the last change for that uri leaves there (the decoded contents of an
\* addition, no file for a deletion), every other file is as it was, and no failure
\* was reported, also when a deletion found no file to delete.
C17_LastChangeInEffect ==
    [][outcome' = "Done" =>
          /\ \A u \in DOMAIN files :
                LET at == {k \in 1..Len(changes) : changes[k].uri = u}
                IN IF at = {} THEN files'[u] = files0[u]
                   ELSE files'[u] =
                            FileAfter(changes[CHOOSE k \in at : \A j \in at : j <= k])
          /\ \A k \in 1..Len(changes) : changes[k].uri \in DOMAIN files
          /\ ResumeFailed \notin notifications']_vars

C17_Witness ==
    /\ outcome = "Done"
    /\ workspaceFolders = <<"A">>
    /\ Len(stored0.folders) = 2
    /\ Len(stored0.folders[1].workingChanges) = 1
    /\ Len(stored0.folders[2].workingChanges) = 1
    /\ stored0.folders[1].workingChanges[1].type = "Deletion"
    /\ stored0.folders[2].workingChanges[1].type = "Addition"
    /\ files0[<<1, "a">>] = NoFile
    /\ files[<<1, "a">>] = "x"


\* the working changes of all folders of an edit session
RECURSIVE AllWorkingChanges(_)
AllWorkingChanges(sessionFolders) ==
    IF sessionFolders = <<>> THEN <<>>
    ELSE Head(sessionFolders).workingChanges \o AllWorkingChanges(Tail(sessionFolders))

\* C19: every change of an edit session that storeEditSession hands to the storage
\* service's write is an addition or a deletion of fileType File, with contents
\* exactly when it is an addition.
C19_StoredChangesWellFormed ==
    storeCall.writes > 0 =>
        LET all == AllWorkingChanges(storeCall.data.folders)
        IN \A i \in 1..Len(all) :
              /\ all[i].fileType = "File"
              /\ all[i].type \in {"Addition", "Deletion"}
              /\ (all[i].contents # Undefined) <=> (all[i].type = "Addition")

C19_Witness ==
    /\ storeCall.writes = 1
    /\ \E i, j \in 1..Len(AllWorkingChanges(storeCall.data.folders)) :
          /\ AllWorkingChanges(storeCall.data.folders)[i].type = "Addition"
          /\ AllWorkingChanges(storeCall.data.folders)[j].type = "Deletion"

\* the changed resources of repository k that storeEditSession does not skip: those
\* in a workspace folder that are not a directory
ExaminedResources(k) ==
    {u \in getChangedResources(repositories[k]) : u[1] # 0 /\ files[u] # Directory}

\* the number of working changes equal to change
Occurrences(workingChanges, change) ==
    Cardinality({i \in 1..Len(workingChanges) : workingChanges[i] = change})

\* C20: storeEditSession pushes, for every repository, one working change for each
\* changed resource that is in a workspace folder and is not a directory: an
\* addition with the encoded content of the file when the file exists, a deletion
\* when it does not; the resources outside the workspace and the directories give no
\* working change, and when nothing else was found nothing is written.
C20_OneChangePerExaminedResource ==
    storeCall.called =>
        /\ (storeCall.writes = 0) <=> (\A k \in 1..Len(repositories) : ExaminedResources(k) = {})
        /\ storeCall.writes > 0 =>
              /\ Len(storeCall.data.folders) = Len(repositories)
              /\ \A k \in 1..Len(repositories) :
                    LET pushed == storeCall.data.folders[k].workingChanges
                    IN /\ Len(pushed) = Cardinality(ExaminedResources(k))
                       /\ \A p \in Paths :
                             /\ Occurrences(pushed, [type |-> "Deletion", fileType |-> "File",
                                                     relativeFilePath |-> p,
                                                     contents |-> Undefined])
                                  = Cardinality({u \in ExaminedResources(k) :
                                                    u[2] = p /\ files[u] = NoFile})
                             /\ \A b \in Bytes :
                                   Occurrences(pushed, [type |-> "Addition", fileType |-> "File",
                                                       relativeFilePath |-> p,
                                                       contents |-> encodeBase64(b)])
                                     = Cardinality({u \in ExaminedResources(k) :
                                                       u[2] = p /\ files[u] = b})

C20_Witness ==
    /\ storeCall.writes = 1
    /\ Len(workspaceFolders) = 2
    /\ Len(repositories) = 1
    /\ getChangedResources(repositories[1]) = ResourceUris(2)
    /\ files[<<1, "a">>] = Directory
    /\ files[<<2, "a">>] = "x"
    /\ storeCall.data.folders[1].workingChanges = <<AdditionChange("a", "x")>>


\* the files storeEditSession captured: the changed resources of the repositories
CapturedFiles == UNION {getChangedResources(repositories[k]) : k \in 1..Len(repositories)}

\* C18: when the edit session that storeEditSession wrote for a workspace is resumed
\* in that workspace and the resume ends as done, every captured file holds the
\* bytes it held when it was stored.
C18_RoundTripRestoresFiles ==
    (storeCall.writes = 1 /\ outcome = "Done") =>
        \A u \in CapturedFiles : files[u] = files0[u]

\* C21: the Folder storeEditSession builds for a repository holds at most one Change
\* per distinct resource location of that repository, also when the resource groups
\* expose one location through distinct URI objects
C21_OneChangePerLocation ==
    storeCall.writes = 1 =>
        \A k \in 1..Len(repositories) :
            Len(storeCall.data.folders[k].workingChanges)
                <= Cardinality({fsPath(u) : u \in getChangedResources(repositories[k])})

\* C22: when no resource of any tracked repository is examined as an edit,
\* storeEditSession yields no Session and no ref and never calls write; write is
\* called at most once, after every repository was scanned, with a Session that
\* holds at least one Change
C22_WriteOnlyWithEdits ==
    storeCall.called =>
        /\ storeCall.writes <= 1
        /\ (\A k \in 1..Len(repositories) : ExaminedResources(k) = {}) =>
               /\ storeCall.writes = 0
               /\ storeCall.data = NoSession
               /\ storeCall.result = Undefined
               /\ stored = NoSession
        /\ storeCall.writes = 1 =>
               /\ Len(storeCall.data.folders) = Len(repositories)
               /\ \E k \in 1..Len(storeCall.data.folders) :
                      storeCall.data.folders[k].workingChanges # <<>>

\* two repositories report changed resources and none of them is examined: each is
\* outside the workspace folders or a directory
C22_Witness ==
    /\ storeCall.called
    /\ storeCall.writes = 0
    /\ Len(repositories) = 2
    /\ \A k \in 1..2 : getChangedResources(repositories[k]) # {}

\* the repositories for which storeEditSession captured at least one change
RepositoriesWithChanges == {k \in 1..Len(repositories) : ExaminedResources(k) # {}}

\* the Folder of a repository rooted in a workspace folder carries that folder's name
\* and the identity the provider gave for it (or none)
FoldersNamedAfterRoot ==
    \A k \in 1..Len(storeCall.data.folders) :
        LET root == getWorkspaceFolderOfRoot(repositories[k].rootUri)
        IN root # 0 =>
               /\ storeCall.data.folders[k].name = workspaceFolders[root]
               /\ storeCall.data.folders[k].canonicalIdentity = storeCall.identifier[root]

\* C23: the Session storeEditSession writes contains one Folder per tracked
\* repository that has captured changes, named after the repository's workspace
\* folder and carrying its canonical identity; with one modified file in one
\* repository it has one Folder with one Change, whatever repositories without
\* edits are tracked besides
C23_OneFolderPerRepositoryWithChanges ==
    storeCall.writes = 1 =>
        /\ Len(storeCall.data.folders) = Cardinality(RepositoriesWithChanges)
        /\ FoldersNamedAfterRoot

\* C24: every failure of the write of storeEditSession yields no ref and is shown to
\* the user: a size-limit rejection with the size-limit message, every other
\* failure (another store error code, or any other error) as a generic failure
C24_WriteFailureSurfaced ==
    (storeCall.writes = 1 /\ storeCall.writeResult # "ok") =>
        /\ storeCall.result = Undefined
        /\ stored = NoSession
        /\ IF storeCall.writeResult = "TooLarge"
           THEN [severity |-> "error", message |-> "payload too large"] \in notifications
           ELSE [severity |-> "error", message |-> "payload failed"] \in notifications

\* C25: at any time at most one call of resumeEditSession is in flight: the resume
\* at startup, the resume of the command, the resume after a sign-in and the forced
\* resume started from the prompt of a partial match never overlap
C25_AtMostOneResumeInFlight == Cardinality(InFlight) <= 1

\* a step in which markAsUninstalled is called
MarkAsUninstalledIsCalled == markAsUninstalledCall'.called # markAsUninstalledCall.called

\* C26: an installed extension whose key is in the extension list of at least one
\* current profile is never passed to markAsUninstalled, whatever sequence of
\* initialization, profile changes, scanner events, file changes and scan
\* outcomes came before
C26_ListedExtensionNeverUninstalled ==
    [][MarkAsUninstalledIsCalled =>
           \A extension \in markAsUninstalledCall'.extensions :
               \A p \in profiles' : keyOf(extension) \notin keysOf(profileExtensions'[p])]_vars

\* the profiles other than profileLocation that reference the key
otherProfiles(key, profileLocation) ==
    IF key \in DOMAIN allExtensions THEN allExtensions[key] \ {profileLocation} ELSE {}

\* C27: when onDidRemoveExtensions comes without error, an extension of the event
\* is marked as uninstalled iff no profile other than the event's references its
\* key; when it comes with an error nothing is marked and the event's profile
\* references the key again
C27_RemovedFromLastProfileIffUninstalled ==
    [][\A error \in BOOLEAN :
           (listenersRegistered /\ OnDidRemoveExtensions(error)) =>
               LET e == profileOperation.event
               IN IF error
                  THEN /\ ~MarkAsUninstalledIsCalled
                       /\ \A extension \in e.extensions :
                              /\ keyOf(extension) \in DOMAIN allExtensions'
                              /\ e.profileLocation \in allExtensions'[keyOf(extension)]
                  ELSE \A extension \in e.extensions :
                           (/\ MarkAsUninstalledIsCalled
                            /\ extension \in markAsUninstalledCall'.extensions)
                               <=> otherProfiles(keyOf(extension), e.profileLocation) = {}]_vars

\* onDidRemoveExtensions emptied p1 and marked as uninstalled the one extension that
\* only p1 referenced; the key that p2 references stays in the map, unmarked
C27_Witness ==
    /\ markAsUninstalledCall.by = "onDidRemoveExtensions"
    /\ Cardinality(markAsUninstalledCall.extensions) = 1
    /\ profileOperation = NoOperation
    /\ profileExtensions["p1"] = {}
    /\ Cardinality(DOMAIN allExtensions) = 1
    /\ \A key \in DOMAIN allExtensions :
           /\ allExtensions[key] = {"p2"}
           /\ key \notin keysOf(markAsUninstalledCall.extensions)

\* C28: once a profile was removed and no asynchronous work is pending, no key of
\* allExtensions references the extensions location of the removed profile,
\* however the removal interleaved with a population or a file-change scan of
\* that profile or with scanner events that name it
C28_NoReferenceToRemovedProfile ==
    (pending = {} /\ profileOperation = NoOperation) =>
        \A key \in DOMAIN allExtensions : allExtensions[key] \cap removedProfiles = {}

\* a step in which onDidChangeExtensionsByAnotherSource fires
AnotherSourceEventFires ==
    onDidChangeExtensionsByAnotherSource'.fired # onDidChangeExtensionsByAnotherSource.fired

referencing(all, profileLocation) == {key \in DOMAIN all : profileLocation \in all[key]}

\* the locations other than profileLocation keep their references
OtherLocationsUnchanged(profileLocation) ==
    \A other \in Locations \ {profileLocation} :
        referencing(allExtensions', other) = referencing(allExtensions, other)

\* no event came between the scan and its continuation: the scanner service has no
\* operation under way and the profile still lists what the scan read
NothingInterleaved(work) ==
    /\ profileOperation = NoOperation
    /\ work.result = profileExtensions[work.location]

\* C30 as stated: when onDidExtensionsProfileChange has gone through the scan of a
\* location with no other event interleaved, the keys that reference the location
\* are the keys of the scanned extensions; the event fires iff the two sets
\* differed, with added = scanned minus tracked before and removed = tracked before
\* minus scanned, and the references of the other locations are unchanged
C30_TrackedEqualsScanned ==
    [][\A work \in pending :
           (/\ OnDidExtensionsProfileChange(work)
            /\ work.answer = "resolved"
            /\ NothingInterleaved(work)) =>
               LET before == referencing(allExtensions, work.location)
                   scanned == keysOf(work.result)
                   fired == onDidChangeExtensionsByAnotherSource'
               IN /\ referencing(allExtensions', work.location) = scanned
                  /\ AnotherSourceEventFires <=> before # scanned
                  /\ AnotherSourceEventFires =>
                         /\ fired.profileLocation = work.location
                         /\ fired.added = {x.identifier :
                                               x \in {y \in work.result : keyOf(y) \notin before}}
                         /\ fired.removed = {key[1] : key \in before \ scanned}
                  /\ OtherLocationsUnchanged(work.location)]_vars

\* C30: the same for every interleaving, where a tracked key in which fromKey finds
\* no version is neither removed nor reported when the scan lacks it
C30_TrackedEqualsScannedButUnversioned ==
    [][\A work \in pending :
           (OnDidExtensionsProfileChange(work) /\ work.answer = "resolved") =>
               LET before == referencing(allExtensions, work.location)
                   scanned == keysOf(work.result)
                   kept == {key \in before \ scanned : key[3] = ""}
                   fired == onDidChangeExtensionsByAnotherSource'
               IN /\ referencing(allExtensions', work.location) = scanned \cup kept
                  /\ AnotherSourceEventFires <=> before # scanned \cup kept
                  /\ AnotherSourceEventFires =>
                         /\ fired.profileLocation = work.location
                         /\ fired.added = {x.identifier :
                                               x \in {y \in work.result : keyOf(y) \notin before}}
                         /\ fired.removed = {key[1] : key \in (before \ scanned) \ kept}
                  /\ OtherLocationsUnchanged(work.location)]_vars

\* a file-change scan found one extension gone and another one new: the event fired
\* with both, and the location references the scanned keys
C30_Witness ==
    /\ lastScan.location = "p1"
    /\ onDidChangeExtensionsByAnotherSource.profileLocation = "p1"
    /\ onDidChangeExtensionsByAnotherSource.added # {}
    /\ onDidChangeExtensionsByAnotherSource.removed # {}
    /\ pending = {}
    /\ referencing(allExtensions, "p1") = keysOf(lastScan.extensions)

\* C31: with workbench.editSessions.autoResume set to 'off', autoResumeEditSession
\* attempts no resume at startup: it makes no call of resumeEditSession (hence no
\* read from the store and no file change) and no sign-in initialization, whatever
\* editSessionId, continueOn and the sign-in state are
C31_OffNeverResumesAtStartup ==
    environment.autoResume = "off" =>
        /\ \A i \in DOMAIN resumes : resumes[i].by # "startup"
        /\ autoPc \notin {"initialize", "resuming"}

\* the calls of resumeEditSession made by the onDidSignIn listener
SignInResumes == {i \in DOMAIN resumes : resumes[i].by = "signIn"}

\* C32: the resume left pending for sign-in is one-shot: a sign-in event that meets
\* the listener starts exactly one silent resume of the latest session, removes the
\* launched-via-continue-on storage flag, clears continueOn and removes the listener;
\* a sign-in event that meets no listener (as every later one does) starts no
\* resume; so the listener starts at most one resume overall
C32_PendingResumeIsOneShot ==
    [][ /\ (signIns' = signIns + 1 /\ signInListener) =>
              /\ resumes' = Append(resumes, [by |-> "signIn", ref |-> Undefined,
                                             silent |-> TRUE, force |-> FALSE,
                                             running |-> TRUE])
              /\ ~environment'.applicationLaunchedViaContinueOn
              /\ environment'.continueOn = Undefined
              /\ ~signInListener'
        /\ (signIns' = signIns + 1 /\ ~signInListener) =>
              /\ resumes' = resumes
              /\ ~signInListener'
        /\ Cardinality(SignInResumes') <= 1
      ]_vars

\* the listener started its resume at the first sign-in, the user signed out and
\* in again, and that second sign-in event started nothing
C32_Witness ==
    /\ signIns = 2
    /\ environment.isSignedIn
    /\ Cardinality(SignInResumes) = 1
    /\ Len(resumes) = 1
    /\ ~signInListener

\* the Continue Working On action opened a URI that carries the editSessionId parameter
OpenedWithEditSessionId ==
    /\ continueCall.opened # NoUri
    /\ queryParameter(continueCall.opened.query, queryParamName) # {}

\* the action had a destination URI: the one it was given or the one resolved
HasDestinationUri == continueCall.uri \notin {NoUri, NoDestinationUri}

C34_NoKeyWithoutProfile ==
    \A key \in DOMAIN allExtensions : allExtensions[key] # {}

\* onRemoveExtensions took the only profile of one key, which left the map, while
\* another key is referenced by both profiles
C34_Witness ==
    /\ listenersRegistered
    /\ profileOperation.kind = "remove"
    /\ \E extension \in profileOperation.event.extensions :
           keyOf(extension) \notin DOMAIN allExtensions
    /\ \E key \in DOMAIN allExtensions : allExtensions[key] = Locations

\* C35: the error completions undo the optimistic events: when onAddExtensions(e)
\* is followed by onDidAddExtensions(e with error), or onRemoveExtensions(e) by
\* onDidRemoveExtensions(e with error), both handled by the watcher with nothing
\* else writing allExtensions in between, allExtensions after the completion equals
\* allExtensions before the announcement, whether or not the extensions of e were
\* referenced by the profile of e before
C35_ErrorCompletionRestoresAllExtensions ==
    (lastOperation.handled /\ lastOperation.error)
        => lastOperation.after = lastOperation.before

====
